---- MODULE Spec2Model ----
(***************************************************************************)
(* Model of rts/idris_rts.c: the machines (VM), their bump-allocated heap, *)
(* the allocation guard, the cross-machine copy and the inbox protocol.    *)
(*                                                                         *)
(* Several specifications share the state:                                 *)
(*   Spec      - the inbox protocol (idris_sendMessage, idris_recvMessage- *)
(*               From, terminate) between senders A, C and receiver B;     *)
(*   SpecLive  - Spec without terminate, with fairness of running calls;   *)
(*   SpecSeq   - whole sends, receives and idris_checkMessagesFrom calls   *)
(*               made one after the other;                                 *)
(*   SpecLocks - the locks of sends and receives between all machines;     *)
(*   SpecAlloc - allocate / idris_requireAlloc / idris_doneAlloc on B's    *)
(*               heap, with peer A copying a message into that heap;       *)
(*   SpecProc  - vmThread / runThread and the processes counter of B;      *)
(*   SpecGc    - sends to B while collections of B's heap happen;          *)
(*   SpecCopy  - copyTo / doCopyTo of value trees from A's heap into B's;  *)
(*   SpecStr   - idris_strTail on A's heap;                                *)
(*   SpecTail  - idris_strTail on B's heap while peer A copies into it.    *)
(* Every thread is bound 1:1 to a machine, so a thread is named by its VM. *)
(***************************************************************************)
EXTENDS Integers, Sequences, FiniteSets, TLC

VARIABLES
    pc,            \* position of each machine's thread
    exited,        \* the process has ended through exit(-1) / abort
    \* ---- VM record (init_vm) ----
    active,        \* vm->active
    processes,     \* vm->processes
    collections,   \* vm->stats.collections
    heap_next,     \* vm->heap.next, as an offset from vm->heap.heap
    heap_end,      \* vm->heap.end, as an offset from vm->heap.heap
    alloc_lock,    \* recursive mutex: [owner, count]
    inbox_lock,    \* plain mutex: its owner or NoVM
    inbox_block,   \* plain mutex: its owner or NoVM
    inbox,         \* the slots at inbox[0] .. inbox[InboxSlots]
    inbox_write,   \* vm->inbox_write, as a slot index
    inbox_freed,   \* free(vm->inbox) has run
    locks_destroyed, \* pthread_mutex_destroy has run on the inbox mutexes
    \* ---- idris_sendMessage frame of each sender ----
    s_gcs, s_dmsg, s_try, s_ret, nsent,
    s_pend,        \* the sender's stores to the inbox not yet in memory
    \* ---- idris_recvMessageFrom frame of each receiver ----
    r_filter, r_msg, r_ret, rcvd,
    \* ---- memory accounting of the inbox ----
    touched,       \* highest inbox slot index read or written so far (-1: none)
    \* ---- allocate / requireAlloc frames ----
    al,            \* the allocate call of each thread
    win,           \* the requireAlloc .. doneAlloc window of each thread
    \* ---- heap cells, for copyTo ----
    cells,         \* cells[vm]: the cells copied into the machine's heap
    cp,            \* cp[t]: the copyTo call of thread t
    \* ---- frames of the other calls ----
    s_dest,        \* the dest argument of each thread's idris_sendMessage
    p_load,        \* the value of callvm->processes a thread has loaded
    check_ret      \* what idris_checkMessagesFrom returned, and its filter

vars == << pc, exited, active, processes, collections, heap_next, heap_end,
           alloc_lock, inbox_lock, inbox_block, inbox, inbox_write,
           inbox_freed, locks_destroyed,
           s_gcs, s_dmsg, s_try, s_ret, nsent, s_pend,
           r_filter, r_msg, r_ret, rcvd, touched, al, win, cells, cp,
           s_dest, p_load, check_ret >>

msgVars   == << inbox, inbox_write, touched >>
sendVars  == << s_gcs, s_dmsg, s_try, s_ret, nsent, s_pend >>
recvVars  == << r_filter, r_msg, r_ret, rcvd >>
lockVars  == << alloc_lock, inbox_lock, inbox_block >>
heapVars  == << heap_next, heap_end, collections >>
allocVars == << al, win >>
copyVars  == << cells, cp >>
lifeVars  == << active, inbox_freed, locks_destroyed >>
callVars  == << s_dest, p_load, check_ret >>

-----------------------------------------------------------------------------
(* Bounds of the model *)

InboxSlots     == 2   \* slots between inbox and inbox_end (1024 in init_vm)
MaxSends       == 3   \* idris_sendMessage calls made, by all senders together
MaxMsgGCs      == 1   \* collections of the receiver's heap followed under Spec
MaxCollections == 2   \* collections of B's heap followed under SpecAlloc
HeapWords      == 5   \* heap size in 8-byte words (init_vm's heap_size / 8)
MaxCopyCells   == 2   \* cells a peer allocates in one copyTo
CopyHeapWords  == 16  \* heap size in 8-byte words under SpecCopy
MaxStrLen      == 3   \* length of the strings idris_strTail starts from
StrHeapWords   == 20  \* heap size in 8-byte words under SpecStr

-----------------------------------------------------------------------------
(* Machines *)

VMs     == {"A", "B", "C"}
Senders == {"A", "C"}
Rcv     == "B"
NoVM    == "NULL"          \* a NULL VM* (no sender filter, no lock owner)
NullVal == "NULL"          \* a NULL VAL

\* sizeof(Msg) in units of sizeof(VAL): the two pointer fields msg and sender.
MsgWords == 2

\* The inbox allocation of init_vm, malloc(1024*sizeof(VAL)), in units of
\* sizeof(VAL), with 1024 scaled to InboxSlots.
InboxAllocWords == InboxSlots

\* inbox_end = inbox + 1024, as a slot index.
inbox_end == InboxSlots

\* A slot: the fields msg and sender of a Msg. With the msg pointer travel the
\* machine that made the message (src) and the number of its send (seq), which
\* name the message and are read by no action.
EmptySlot == [msg |-> NullVal, sender |-> NoVM, src |-> NoVM, seq |-> 0]

\* memset(vm->inbox, 0, ...): every slot starts NULL. Slot index InboxSlots is
\* the memory at inbox_end, which idris_recvMessageFrom writes when the inbox is
\* full.
InitInbox == [i \in 0..InboxSlots |-> EmptySlot]

Max(a, b) == IF a >= b THEN a ELSE b

-----------------------------------------------------------------------------
(* Mutexes *)

FreeLock == [owner |-> NoVM, count |-> 0]

\* pthread_mutex_lock on the recursive alloc_lock can proceed for t.
CanLockRec(l, t) == l.owner = NoVM \/ l.owner = t
LockRec(l, t)    == [owner |-> t, count |-> l.count + 1]
UnlockRec(l)     == IF l.count <= 1 THEN FreeLock
                    ELSE [owner |-> l.owner, count |-> l.count - 1]

-----------------------------------------------------------------------------
(* The inbox: the pure parts of idris_getMessageFrom and of the compaction *)

MinOf(S) == CHOOSE x \in S : \A y \in S : x <= y
MaxOf(S) == CHOOSE x \in S : \A y \in S : x >= y

\* The slots of [inbox, inbox_write) that pass the sender filter.
Matching(box, w, sender) ==
    {i \in 0..(w - 1) : sender = NoVM \/ box[i].sender = sender}

\* for (msg = vm->inbox; msg < vm->inbox_write; ++msg) ... return msg;
\* the index of the first matching slot, -1 for the NULL result.
idris_getMessageFrom(box, w, sender) ==
    IF Matching(box, w, sender) = {} THEN -1
    ELSE MinOf(Matching(box, w, sender))

\* The highest slot the scan dereferences (msg->sender is read only when a
\* filter is given).
ScanTouched(w, sender, found) ==
    IF sender = NoVM THEN -1
    ELSE IF found >= 0 THEN found ELSE w - 1

\* The slide of idris_recvMessageFrom from slot i, followed by the clearing of
\* the slot at inbox_write:
\*   for (; msg < inbox_write; ++msg)
\*       if (msg+1 != inbox_end) { *msg = *(msg+1) }      (field by field)
\*   inbox_write->msg = NULL; inbox_write->sender = NULL;
Compact(box, i, w) ==
    [j \in DOMAIN box |->
        IF j = w THEN EmptySlot
        ELSE IF j >= i /\ j < w /\ j + 1 # inbox_end THEN box[j + 1]
        ELSE box[j]]

Touch(d, k) == touched' = [touched EXCEPT ![d] = Max(@, k)]

-----------------------------------------------------------------------------
(* idris_sendMessage(sender = t, dest = Rcv, msg) *)

\* A send that never looks at the active flag.
DestInactive_NotChecked(dest) == FALSE

\* dest->active == 0
DestInactive(dest) == active[dest] = FALSE

\* The sends made so far.
TotalSent == nsent["A"] + nsent["C"]

\* if (dest->active == 0) { return 0; }        the message is dropped
\* int gcs = dest->stats.collections;
SendStart(t) ==
    /\ ~exited /\ t \in Senders /\ pc[t] = "idle"
    /\ TotalSent < MaxSends
    /\ nsent' = [nsent EXCEPT ![t] = @ + 1]
    /\ IF DestInactive(Rcv)
         THEN /\ s_ret' = [s_ret EXCEPT ![t] = 0]
              /\ UNCHANGED << pc, s_gcs, s_try, callVars >>
         ELSE /\ s_ret' = [s_ret EXCEPT ![t] = -1]
              /\ s_gcs' = [s_gcs EXCEPT ![t] = collections[Rcv]]
              /\ s_try' = [s_try EXCEPT ![t] = 1]
              /\ pc' = [pc EXCEPT ![t] = "s_copy"]
    /\ UNCHANGED << exited, processes, heapVars, lockVars, msgVars, lifeVars,
                    s_dmsg, s_pend, recvVars, allocVars, copyVars, callVars >>

\* pthread_mutex_lock(&dest->alloc_lock);
\* VAL dmsg = copyTo(dest, msg); pthread_mutex_unlock(&dest->alloc_lock);
\* if (dest->stats.collections > gcs) { lock; copy again; unlock }   (once)
\* One step is one locked copy. Under this specification the message is a small
\* value whose copy is named by the send's sequence number; the copy collects
\* dest's heap when it finds no room (gc = TRUE).
SendCopy(t) ==
    /\ ~exited /\ pc[t] = "s_copy"
    /\ CanLockRec(alloc_lock[Rcv], t)
    /\ alloc_lock' = [alloc_lock EXCEPT ![Rcv] = UnlockRec(LockRec(@, t))]
    /\ s_dmsg' = [s_dmsg EXCEPT ![t] = nsent[t]]
    /\ \E gc \in BOOLEAN :
         /\ gc => collections[Rcv] < MaxMsgGCs
         /\ collections' = [collections EXCEPT
                               ![Rcv] = IF gc THEN @ + 1 ELSE @]
    /\ IF s_try[t] = 1 /\ collections'[Rcv] > s_gcs[t]
         THEN /\ s_try' = [s_try EXCEPT ![t] = 2]
              /\ s_gcs' = s_gcs
              /\ pc' = [pc EXCEPT ![t] = "s_copy"]
         ELSE \* gcs is not read again: the frame keeps only dmsg
              /\ s_try' = [s_try EXCEPT ![t] = 0]
              /\ s_gcs' = [s_gcs EXCEPT ![t] = 0]
              /\ pc' = [pc EXCEPT ![t] = "s_lockin"]
    /\ UNCHANGED << exited, processes, heap_next, heap_end, inbox_lock,
                    inbox_block, msgVars, lifeVars, s_ret, nsent,
                    s_pend, recvVars, allocVars, copyVars, callVars >>

\* The stores of lines 863-865: to the slot's msg field, to its sender field and
\* to the cursor inbox_write.
Stores == {"msg", "sender", "write"}

\* The stores are made under inbox_lock, but idris_recvMessageFrom scans the
\* cursor and the slots under inbox_block alone: the accesses race, and nothing
\* orders the three stores for that reader. Each pending store may be the next
\* one to reach memory.
CanStore(t, st) == st \in s_pend[t]

\* dest->inbox_write >= dest->inbox_end
InboxFull(w) == w >= inbox_end

\* pthread_mutex_lock(&(dest->inbox_lock));
\* if (InboxFull) { fprintf(stderr, "Inbox full"); exit(-1); }
\* Otherwise the three stores of lines 863-865 are issued.
SendLockInbox(t) ==
    /\ ~exited /\ pc[t] = "s_lockin"
    /\ inbox_lock[Rcv] = NoVM
    /\ inbox_lock' = [inbox_lock EXCEPT ![Rcv] = t]
    /\ IF InboxFull(inbox_write[Rcv])
         THEN /\ exited' = TRUE
              /\ pc' = [pc EXCEPT ![t] = "fatal_inbox_full"]
              /\ s_pend' = s_pend
         ELSE /\ exited' = exited
              /\ pc' = [pc EXCEPT ![t] = "s_store"]
              /\ s_pend' = [s_pend EXCEPT ![t] = Stores]
    /\ UNCHANGED << processes, heapVars, alloc_lock, inbox_block, msgVars,
                    lifeVars, s_gcs, s_dmsg, s_try, s_ret, nsent,
                    recvVars, allocVars, copyVars, callVars >>

\* The slot the sender's stores go to: the value of dest->inbox_write it read,
\* which is the cursor in memory until its own increment has landed.
SendSlot(t) ==
    IF "write" \in s_pend[t] THEN inbox_write[Rcv] ELSE inbox_write[Rcv] - 1

\* One store has reached memory; the sender goes on to lock inbox_block when
\* all three have.
StoreDone(t, st) ==
    /\ s_pend' = [s_pend EXCEPT ![t] = @ \ {st}]
    /\ pc' = [pc EXCEPT ![t] =
                 IF s_pend[t] \ {st} = {} THEN "s_lockblk" ELSE "s_store"]

\* dest->inbox_write->msg = dmsg;
SendWriteMsg(t) ==
    /\ ~exited /\ pc[t] = "s_store" /\ CanStore(t, "msg")
    /\ inbox' = [inbox EXCEPT ![Rcv][SendSlot(t)].msg = "val",
                              ![Rcv][SendSlot(t)].src = t,
                              ![Rcv][SendSlot(t)].seq = s_dmsg[t]]
    /\ Touch(Rcv, SendSlot(t))
    /\ StoreDone(t, "msg")
    /\ UNCHANGED << exited, processes, heapVars, lockVars, inbox_write,
                    lifeVars, s_gcs, s_dmsg, s_try, s_ret, nsent,
                    recvVars, allocVars, copyVars, callVars >>

\* dest->inbox_write->sender = sender;
SendWriteSender(t) ==
    /\ ~exited /\ pc[t] = "s_store" /\ CanStore(t, "sender")
    /\ inbox' = [inbox EXCEPT ![Rcv][SendSlot(t)].sender = t]
    /\ Touch(Rcv, SendSlot(t))
    /\ StoreDone(t, "sender")
    /\ UNCHANGED << exited, processes, heapVars, lockVars, inbox_write,
                    lifeVars, s_gcs, s_dmsg, s_try, s_ret, nsent,
                    recvVars, allocVars, copyVars, callVars >>

\* dest->inbox_write++;
SendAdvance(t) ==
    /\ ~exited /\ pc[t] = "s_store" /\ CanStore(t, "write")
    /\ inbox_write' = [inbox_write EXCEPT ![Rcv] = @ + 1]
    /\ StoreDone(t, "write")
    /\ UNCHANGED << exited, processes, heapVars, lockVars, inbox, touched,
                    lifeVars, s_gcs, s_dmsg, s_try, s_ret, nsent,
                    recvVars, allocVars, copyVars, callVars >>

\* pthread_mutex_lock(&dest->inbox_block);
\* pthread_cond_signal(&dest->inbox_waiting);
\* pthread_mutex_unlock(&dest->inbox_block);
SendSignal(t) ==
    /\ ~exited /\ pc[t] = "s_lockblk"
    /\ inbox_block[Rcv] = NoVM
    /\ pc' = [pc EXCEPT ![t] = "s_unlockin"]
    /\ UNCHANGED << exited, processes, heapVars, lockVars,
                    msgVars, lifeVars, sendVars, recvVars, allocVars, copyVars,
                    callVars >>

\* pthread_mutex_unlock(&(dest->inbox_lock)); return 1;
SendReturn(t) ==
    /\ ~exited /\ pc[t] = "s_unlockin"
    /\ inbox_lock' = [inbox_lock EXCEPT ![Rcv] = NoVM]
    /\ s_ret' = [s_ret EXCEPT ![t] = 1]
    /\ s_gcs' = [s_gcs EXCEPT ![t] = 0]
    /\ s_dmsg' = [s_dmsg EXCEPT ![t] = 0]
    /\ s_try' = [s_try EXCEPT ![t] = 0]
    /\ pc' = [pc EXCEPT ![t] = "idle"]
    /\ UNCHANGED << exited, processes, heapVars, alloc_lock, inbox_block,
                    msgVars, lifeVars, nsent, s_pend, recvVars, allocVars,
                    copyVars, callVars >>

-----------------------------------------------------------------------------
(* idris_recvMessageFrom(vm = Rcv, sender), called by Rcv's own thread *)

Filters == {NoVM} \cup Senders

\* Msg* ret = malloc(sizeof(Msg));       idris_recvMessage passes sender = NULL
\* pthread_mutex_lock(&vm->inbox_block);
RecvStart(sender) ==
    /\ ~exited /\ pc[Rcv] = "idle"
    /\ inbox_block[Rcv] = NoVM
    /\ inbox_block' = [inbox_block EXCEPT ![Rcv] = Rcv]
    /\ r_filter' = sender
    /\ pc' = [pc EXCEPT ![Rcv] = "r_scan"]
    /\ UNCHANGED << exited, processes, heapVars, alloc_lock, inbox_lock,
                    msgVars, lifeVars, sendVars, r_msg, r_ret, rcvd,
                    allocVars, copyVars, callVars >>

\* msg = idris_getMessageFrom(vm, sender);
\* while (msg == NULL) { pthread_cond_timedwait(...); msg = ...; }
\*     a NULL result enters the timed wait, which releases inbox_block;
\* pthread_mutex_unlock(&vm->inbox_block);
\* ret->msg = msg->msg; ret->sender = msg->sender;
RecvScan ==
    /\ ~exited /\ pc[Rcv] = "r_scan"
    /\ inbox_block' = [inbox_block EXCEPT ![Rcv] = NoVM]
    /\ LET found == idris_getMessageFrom(inbox[Rcv], inbox_write[Rcv], r_filter)
       IN  /\ r_msg' = found
           /\ IF found = -1
                THEN /\ Touch(Rcv, ScanTouched(inbox_write[Rcv], r_filter, found))
                     /\ r_ret' = r_ret
                     /\ pc' = [pc EXCEPT ![Rcv] = "r_wait"]
                ELSE /\ Touch(Rcv, found)
                     /\ r_ret' = inbox[Rcv][found]
                     /\ pc' = [pc EXCEPT ![Rcv] = "r_lockin"]
    /\ UNCHANGED << exited, processes, heapVars, alloc_lock, inbox_lock,
                    inbox, inbox_write, lifeVars, sendVars, r_filter, rcvd,
                    allocVars, copyVars, callVars >>

\* A timed wait that never ends.
RecvWake_Never == FALSE

\* pthread_cond_timedwait returns (signalled, or the 3 seconds are over) with
\* inbox_block held again.
RecvWake ==
    /\ ~exited /\ pc[Rcv] = "r_wait"
    /\ inbox_block[Rcv] = NoVM
    /\ inbox_block' = [inbox_block EXCEPT ![Rcv] = Rcv]
    /\ pc' = [pc EXCEPT ![Rcv] = "r_scan"]
    /\ UNCHANGED << exited, processes, heapVars, alloc_lock, inbox_lock,
                    msgVars, lifeVars, sendVars, recvVars, allocVars, copyVars,
                    callVars >>

\* pthread_mutex_lock(&(vm->inbox_lock));
RecvLockInbox ==
    /\ ~exited /\ pc[Rcv] = "r_lockin"
    /\ inbox_lock[Rcv] = NoVM
    /\ inbox_lock' = [inbox_lock EXCEPT ![Rcv] = Rcv]
    /\ pc' = [pc EXCEPT ![Rcv] = "r_slide"]
    /\ UNCHANGED << exited, processes, heapVars, alloc_lock, inbox_block,
                    msgVars, lifeVars, sendVars, recvVars, allocVars, copyVars,
                    callVars >>

\* the slide, the clearing of the slot at inbox_write, vm->inbox_write--;
\* pthread_mutex_unlock(&(vm->inbox_lock)); return ret;
RecvCompact ==
    /\ ~exited /\ pc[Rcv] = "r_slide"
    /\ inbox' = [inbox EXCEPT ![Rcv] = Compact(@, r_msg, inbox_write[Rcv])]
    /\ inbox_write' = [inbox_write EXCEPT ![Rcv] = @ - 1]
    /\ Touch(Rcv, inbox_write[Rcv])
    /\ inbox_lock' = [inbox_lock EXCEPT ![Rcv] = NoVM]
    /\ rcvd' = Append(rcvd, r_ret)
    /\ r_filter' = NoVM
    /\ r_msg' = -1
    /\ r_ret' = EmptySlot
    /\ pc' = [pc EXCEPT ![Rcv] = "idle"]
    /\ UNCHANGED << exited, processes, heapVars, alloc_lock, inbox_block,
                    lifeVars, sendVars, allocVars, copyVars, callVars >>

-----------------------------------------------------------------------------
(* terminate(vm = Rcv), called by Rcv's thread when its function returns *)

\* free(vm->inbox); free(vm->valstack); free_heap(&(vm->heap));
TermFree ==
    /\ ~exited /\ pc[Rcv] = "idle"
    /\ inbox_freed' = [inbox_freed EXCEPT ![Rcv] = TRUE]
    /\ pc' = [pc EXCEPT ![Rcv] = "t_destroy"]
    /\ UNCHANGED << exited, processes, heapVars, lockVars, msgVars, active,
                    locks_destroyed, sendVars, recvVars, allocVars, copyVars,
                    callVars >>

\* pthread_mutex_destroy(inbox_lock), (inbox_block); pthread_cond_destroy
TermDestroy ==
    /\ ~exited /\ pc[Rcv] = "t_destroy"
    /\ locks_destroyed' = [locks_destroyed EXCEPT ![Rcv] = TRUE]
    /\ pc' = [pc EXCEPT ![Rcv] = "t_inactive"]
    /\ UNCHANGED << exited, processes, heapVars, lockVars, msgVars, active,
                    inbox_freed, sendVars, recvVars, allocVars, copyVars,
                    callVars >>

\* vm->active = 0;
TermInactive ==
    /\ ~exited /\ pc[Rcv] = "t_inactive"
    /\ active' = [active EXCEPT ![Rcv] = FALSE]
    /\ pc' = [pc EXCEPT ![Rcv] = "done"]
    /\ UNCHANGED << exited, processes, heapVars, lockVars, msgVars,
                    inbox_freed, locks_destroyed, sendVars, recvVars,
                    allocVars, copyVars, callVars >>

-----------------------------------------------------------------------------
(* init_vm and the specifications *)

\* heap_size passed to init_vm (4096000 in idris_vm), a multiple of 8
HeapSize == 8 * HeapWords

NoCall   == [op |-> "none"]
NoCheck  == [called |-> FALSE, filter |-> NoVM, sender |-> NoVM]
NoWindow == [open |-> FALSE, left |-> 0, gc |-> FALSE, locked |-> FALSE]

\* alloc_heap(&(vm->heap), heap_size, heap_size, NULL): an empty heap of size
\* bytes for every machine.
InitHeap(size) ==
    /\ heap_next = [m \in VMs |-> 0]
    /\ heap_end = [m \in VMs |-> size]

\* What init_vm sets in every VM record but vm->active and vm->processes, and
\* the empty frames of the calls.
InitFrames ==
    /\ exited = FALSE
    /\ collections = [m \in VMs |-> 0]
    /\ alloc_lock = [m \in VMs |-> FreeLock]
    /\ inbox_lock = [m \in VMs |-> NoVM]
    /\ inbox_block = [m \in VMs |-> NoVM]
    /\ inbox = [m \in VMs |-> InitInbox]
    /\ inbox_write = [m \in VMs |-> 0]
    /\ inbox_freed = [m \in VMs |-> FALSE]
    /\ locks_destroyed = [m \in VMs |-> FALSE]
    /\ touched = [m \in VMs |-> -1]
    /\ s_gcs = [t \in VMs |-> 0]
    /\ s_dmsg = [t \in VMs |-> 0]
    /\ s_try = [t \in VMs |-> 0]
    /\ s_ret = [t \in VMs |-> -1]
    /\ nsent = [t \in VMs |-> 0]
    /\ s_pend = [t \in VMs |-> {}]
    /\ r_filter = NoVM
    /\ r_msg = -1
    /\ r_ret = EmptySlot
    /\ rcvd = << >>
    /\ s_dest = [t \in VMs |-> NoVM]
    /\ p_load = [t \in VMs |-> 0]
    /\ check_ret = NoCheck

\* init_vm for every machine; vmThread has set processes = 1 on the spawned
\* machines B and C and counted them on their parent A.
InitVMs ==
    /\ pc = [t \in VMs |-> "idle"]
    /\ active = [m \in VMs |-> TRUE]
    /\ InitFrames

Init ==
    /\ InitVMs
    /\ processes = [m \in VMs |-> IF m = "A" THEN 2 ELSE 1]
    /\ al = [t \in VMs |-> NoCall]
    /\ win = [t \in VMs |-> NoWindow]
    /\ InitHeap(HeapSize)
    /\ cells = [m \in VMs |-> << >>]
    /\ cp = [t \in VMs |-> NoCall]

Next ==
    \/ \E t \in Senders :
          \/ SendStart(t)
          \/ SendCopy(t)
          \/ SendLockInbox(t)
          \/ SendWriteMsg(t)
          \/ SendWriteSender(t)
          \/ SendAdvance(t)
          \/ SendSignal(t)
          \/ SendReturn(t)
    \/ \E f \in Filters : RecvStart(f)
    \/ RecvScan
    \/ RecvWake
    \/ RecvLockInbox
    \/ RecvCompact
    \/ TermFree
    \/ TermDestroy
    \/ TermInactive

Spec == Init /\ [][Next]_vars

\* Scheduling: a thread that can take its next step takes it. Every step of a
\* running idris_sendMessage and idris_recvMessageFrom is a step of a running
\* OS thread; a blocked pthread_mutex_lock goes on once the mutex is free for
\* good, and the timed wait ends at the latest when its 3 seconds are over.
\* Whether a thread calls send, receive or terminate at all is up to the
\* program.
Fairness ==
    /\ \A t \in Senders :
          WF_vars(\/ SendCopy(t) \/ SendLockInbox(t) \/ SendWriteMsg(t)
                  \/ SendWriteSender(t) \/ SendAdvance(t) \/ SendSignal(t)
                  \/ SendReturn(t))
    /\ WF_vars(RecvScan \/ RecvWake \/ RecvLockInbox \/ RecvCompact)

\* Under SpecLive the program makes one send fewer and does not terminate the
\* receiver.
LiveSends == MaxSends - 1

LiveSendStart(t) == TotalSent < LiveSends /\ SendStart(t)

NextLive ==
    \/ \E t \in Senders :
          \/ LiveSendStart(t)
          \/ SendCopy(t)
          \/ SendLockInbox(t)
          \/ SendWriteMsg(t)
          \/ SendWriteSender(t)
          \/ SendAdvance(t)
          \/ SendSignal(t)
          \/ SendReturn(t)
    \/ \E f \in Filters : RecvStart(f)
    \/ RecvScan
    \/ RecvWake
    \/ RecvLockInbox
    \/ RecvCompact

SpecLive == Init /\ [][NextLive]_vars /\ Fairness

-----------------------------------------------------------------------------
(* idris_checkMessagesFrom, and whole calls made one after the other *)

\* for (msg = vm->inbox; msg < vm->inbox_end && msg->msg != NULL; ++msg)
\*     if (sender == NULL || msg->sender == sender) return msg->sender;
\* return 0;
\* The slot index at which the loop started at i stops, and what it returns.
RECURSIVE CheckStop(_, _, _)
CheckStop(box, i, sender) ==
    IF i >= inbox_end THEN i - 1           \* slot i is not read
    ELSE IF box[i].msg = NullVal THEN i
    ELSE IF sender = NoVM \/ box[i].sender = sender THEN i
    ELSE CheckStop(box, i + 1, sender)

RECURSIVE CheckFrom(_, _, _)
CheckFrom(box, i, sender) ==
    IF i >= inbox_end \/ box[i].msg = NullVal THEN NoVM
    ELSE IF sender = NoVM \/ box[i].sender = sender THEN box[i].sender
    ELSE CheckFrom(box, i + 1, sender)

idris_checkMessagesFrom(box, sender) == CheckFrom(box, 0, sender)

\* The message values sent under SpecSeq: a NULL VAL and an inline integer.
\* doCopyTo returns both as they are (x == NULL || ISINT(x)) and allocates
\* nothing in dest's heap.
MsgVals == {NullVal, "val"}

\* idris_checkMessagesFrom(vm = Rcv, sender) called by Rcv's thread;
\* idris_checkMessages passes sender = NULL.
CheckMessagesFrom(sender) ==
    /\ ~exited /\ \A t \in VMs : pc[t] = "idle"
    /\ check_ret' = [called |-> TRUE, filter |-> sender,
                     sender |-> idris_checkMessagesFrom(inbox[Rcv], sender)]
    /\ Touch(Rcv, CheckStop(inbox[Rcv], 0, sender))
    /\ UNCHANGED << pc, exited, processes, heapVars, lockVars, inbox,
                    inbox_write, lifeVars, sendVars, recvVars, allocVars,
                    copyVars, s_dest, p_load >>

\* A whole idris_sendMessage(t, Rcv, v) while no other thread is inside a call:
\* the copy returns v, the locks are free, the inbox-full test, the three
\* stores, the signal, return 1.
SeqSend(t, v) ==
    /\ ~exited /\ \A u \in VMs : pc[u] = "idle"
    /\ TotalSent < MaxSends /\ ~DestInactive(Rcv)
    /\ nsent' = [nsent EXCEPT ![t] = @ + 1]
    /\ IF InboxFull(inbox_write[Rcv])
         THEN /\ exited' = TRUE
              /\ pc' = [pc EXCEPT ![t] = "fatal_inbox_full"]
              /\ UNCHANGED << msgVars, s_ret >>
         ELSE /\ exited' = exited
              /\ pc' = pc
              /\ inbox' = [inbox EXCEPT ![Rcv][inbox_write[Rcv]] =
                              [msg |-> v, sender |-> t, src |-> t,
                               seq |-> nsent'[t]]]
              /\ inbox_write' = [inbox_write EXCEPT ![Rcv] = @ + 1]
              /\ Touch(Rcv, inbox_write[Rcv])
              /\ s_ret' = [s_ret EXCEPT ![t] = 1]
    /\ check_ret' = NoCheck
    /\ UNCHANGED << processes, heapVars, lockVars, lifeVars, s_gcs, s_dmsg,
                    s_try, s_pend, recvVars, allocVars, copyVars, s_dest,
                    p_load >>

\* A whole idris_recvMessageFrom(Rcv, sender) that finds a match at its first
\* scan (without one the call stays in its wait loop, as no other thread
\* runs): the scan, the copy to ret, the slide, the clearing, inbox_write--.
SeqRecv(sender) ==
    /\ ~exited /\ \A u \in VMs : pc[u] = "idle"
    /\ LET found == idris_getMessageFrom(inbox[Rcv], inbox_write[Rcv], sender)
       IN  /\ found # -1
           /\ rcvd' = Append(rcvd, inbox[Rcv][found])
           /\ inbox' = [inbox EXCEPT
                           ![Rcv] = Compact(@, found, inbox_write[Rcv])]
    /\ inbox_write' = [inbox_write EXCEPT ![Rcv] = @ - 1]
    /\ Touch(Rcv, inbox_write[Rcv])
    /\ check_ret' = NoCheck
    /\ UNCHANGED << pc, exited, processes, heapVars, lockVars, lifeVars,
                    sendVars, r_filter, r_msg, r_ret, allocVars, copyVars,
                    s_dest, p_load >>

NextSeq ==
    \/ \E t \in Senders, v \in MsgVals : SeqSend(t, v)
    \/ \E f \in Filters : SeqRecv(f)
    \/ \E f \in Filters : CheckMessagesFrom(f)

SpecSeq == Init /\ [][NextSeq]_vars

-----------------------------------------------------------------------------
(* The locks of idris_sendMessage and idris_recvMessageFrom, with every     *)
(* machine sending to any machine and receiving on its own inbox. A thread  *)
(* that is about to call pthread_mutex_lock stands in front of the lock     *)
(* until the lock can be taken. The inbox is followed by its cursor only,   *)
(* and the collections counter by the outcome of its comparison.            *)

\* The machines that are sent to and that receive: A and B send to each
\* other, and C sends to both.
LkDests == {"A", "B"}

\* if (dest->active == 0) { return 0; }       every machine is active here
\* int gcs = dest->stats.collections;
LkSendStart(t, d) ==
    /\ ~exited /\ pc[t] = "idle" /\ d \in LkDests /\ ~DestInactive(d)
    /\ s_dest' = [s_dest EXCEPT ![t] = d]
    /\ s_try' = [s_try EXCEPT ![t] = 1]
    /\ pc' = [pc EXCEPT ![t] = "k_alloc"]
    /\ UNCHANGED << exited, processes, heapVars, lockVars, msgVars, lifeVars,
                    s_gcs, s_dmsg, s_ret, nsent, s_pend, recvVars, allocVars,
                    copyVars, p_load, check_ret >>

\* pthread_mutex_lock(&dest->alloc_lock);       before either copy
LkLockAlloc(t) ==
    /\ ~exited /\ pc[t] = "k_alloc"
    /\ CanLockRec(alloc_lock[s_dest[t]], t)
    /\ alloc_lock' = [alloc_lock EXCEPT ![s_dest[t]] = LockRec(@, t)]
    /\ pc' = [pc EXCEPT ![t] = "k_copy"]
    /\ UNCHANGED << exited, processes, heapVars, inbox_lock, inbox_block,
                    msgVars, lifeVars, sendVars, recvVars, allocVars, copyVars,
                    callVars >>

\* VAL dmsg = copyTo(dest, msg); pthread_mutex_unlock(&dest->alloc_lock);
\* After the first copy: if (dest->stats.collections > gcs) copy again;
\* collected is the outcome of that comparison (the copy, or dest's own
\* thread, may have run dest's collector since gcs was read).
LkCopy(t, collected) ==
    /\ ~exited /\ pc[t] = "k_copy"
    /\ alloc_lock' = [alloc_lock EXCEPT ![s_dest[t]] = UnlockRec(@)]
    /\ IF s_try[t] = 1 /\ collected
         THEN /\ s_try' = [s_try EXCEPT ![t] = 2]
              /\ pc' = [pc EXCEPT ![t] = "k_alloc"]
         ELSE /\ s_try' = s_try
              /\ pc' = [pc EXCEPT ![t] = "k_lockin"]
    /\ UNCHANGED << exited, processes, heapVars, inbox_lock, inbox_block,
                    msgVars, lifeVars, s_gcs, s_dmsg, s_ret, nsent, s_pend,
                    recvVars, allocVars, copyVars, callVars >>

\* pthread_mutex_lock(&(dest->inbox_lock));
\* if (InboxFull) { fprintf(stderr, "Inbox full"); exit(-1); }
\* the stores of the slot; dest->inbox_write++;
LkLockInbox(t) ==
    /\ ~exited /\ pc[t] = "k_lockin"
    /\ inbox_lock[s_dest[t]] = NoVM
    /\ inbox_lock' = [inbox_lock EXCEPT ![s_dest[t]] = t]
    /\ IF InboxFull(inbox_write[s_dest[t]])
         THEN /\ exited' = TRUE
              /\ pc' = [pc EXCEPT ![t] = "fatal_inbox_full"]
              /\ inbox_write' = inbox_write
         ELSE /\ exited' = exited
              /\ pc' = [pc EXCEPT ![t] = "k_lockblk"]
              /\ inbox_write' = [inbox_write EXCEPT ![s_dest[t]] = @ + 1]
    /\ UNCHANGED << processes, heapVars, alloc_lock, inbox_block, inbox,
                    touched, lifeVars, sendVars, recvVars, allocVars, copyVars,
                    callVars >>

\* pthread_mutex_lock(&dest->inbox_block);
LkLockBlock(t) ==
    /\ ~exited /\ pc[t] = "k_lockblk"
    /\ inbox_block[s_dest[t]] = NoVM
    /\ inbox_block' = [inbox_block EXCEPT ![s_dest[t]] = t]
    /\ pc' = [pc EXCEPT ![t] = "k_signal"]
    /\ UNCHANGED << exited, processes, heapVars, alloc_lock, inbox_lock,
                    msgVars, lifeVars, sendVars, recvVars, allocVars, copyVars,
                    callVars >>

\* pthread_cond_signal(&dest->inbox_waiting);
\* pthread_mutex_unlock(&dest->inbox_block);
\* pthread_mutex_unlock(&(dest->inbox_lock)); return 1;
LkSendReturn(t) ==
    /\ ~exited /\ pc[t] = "k_signal"
    /\ inbox_block' = [inbox_block EXCEPT ![s_dest[t]] = NoVM]
    /\ inbox_lock' = [inbox_lock EXCEPT ![s_dest[t]] = NoVM]
    /\ s_dest' = [s_dest EXCEPT ![t] = NoVM]
    /\ s_try' = [s_try EXCEPT ![t] = 0]
    /\ pc' = [pc EXCEPT ![t] = "idle"]
    /\ UNCHANGED << exited, processes, heapVars, alloc_lock, msgVars, lifeVars,
                    s_gcs, s_dmsg, s_ret, nsent, s_pend, recvVars, allocVars,
                    copyVars, p_load, check_ret >>

\* idris_recvMessage(vm = t), entered by t's own thread:
\* Msg* ret = malloc(sizeof(Msg));
LkRecvCall(t) ==
    /\ ~exited /\ pc[t] = "idle" /\ t \in LkDests
    /\ pc' = [pc EXCEPT ![t] = "k_rblock"]
    /\ UNCHANGED << exited, processes, heapVars, lockVars, msgVars, lifeVars,
                    sendVars, recvVars, allocVars, copyVars, callVars >>

\* pthread_mutex_lock(&vm->inbox_block), and the end of a timed wait, which
\* takes inbox_block again (signalled, or the 3 seconds are over).
LkRecvLockBlock(t) ==
    /\ ~exited /\ pc[t] \in {"k_rblock", "k_rwait"}
    /\ inbox_block[t] = NoVM
    /\ inbox_block' = [inbox_block EXCEPT ![t] = t]
    /\ pc' = [pc EXCEPT ![t] = "k_scan"]
    /\ UNCHANGED << exited, processes, heapVars, alloc_lock, inbox_lock,
                    msgVars, lifeVars, sendVars, recvVars, allocVars, copyVars,
                    callVars >>

\* A receiver that finds a message and goes on holding inbox_block.
LkRecvScan_KeepBlock(t) ==
    /\ ~exited /\ pc[t] = "k_scan"
    /\ pc' = [pc EXCEPT ![t] =
                 IF inbox_write[t] > 0 THEN "k_rlockin" ELSE "k_rwait"]
    /\ inbox_block' = [inbox_block EXCEPT ![t] =
                          IF inbox_write[t] > 0 THEN t ELSE NoVM]
    /\ UNCHANGED << exited, processes, heapVars, alloc_lock, inbox_lock,
                    msgVars, lifeVars, sendVars, recvVars, allocVars, copyVars,
                    callVars >>

\* msg = idris_getMessageFrom(vm, NULL): a message is found when one is
\* pending. Without one pthread_cond_timedwait releases inbox_block; with one
\* pthread_mutex_unlock(&vm->inbox_block) does.
LkRecvScan(t) ==
    /\ ~exited /\ pc[t] = "k_scan"
    /\ pc' = [pc EXCEPT ![t] =
                 IF inbox_write[t] > 0 THEN "k_rlockin" ELSE "k_rwait"]
    /\ inbox_block' = [inbox_block EXCEPT ![t] = NoVM]
    /\ UNCHANGED << exited, processes, heapVars, alloc_lock, inbox_lock,
                    msgVars, lifeVars, sendVars, recvVars, allocVars, copyVars,
                    callVars >>

\* pthread_mutex_lock(&(vm->inbox_lock));
LkRecvLockInbox(t) ==
    /\ ~exited /\ pc[t] = "k_rlockin"
    /\ inbox_lock[t] = NoVM
    /\ inbox_lock' = [inbox_lock EXCEPT ![t] = t]
    /\ pc' = [pc EXCEPT ![t] = "k_slide"]
    /\ UNCHANGED << exited, processes, heapVars, alloc_lock, inbox_block,
                    msgVars, lifeVars, sendVars, recvVars, allocVars, copyVars,
                    callVars >>

\* the slide; vm->inbox_write--; pthread_mutex_unlock(&(vm->inbox_lock));
LkRecvCompact(t) ==
    /\ ~exited /\ pc[t] = "k_slide"
    /\ inbox_write' = [inbox_write EXCEPT ![t] = @ - 1]
    /\ inbox_lock' = [inbox_lock EXCEPT ![t] = NoVM]
    /\ pc' = [pc EXCEPT ![t] = "idle"]
    /\ UNCHANGED << exited, processes, heapVars, alloc_lock, inbox_block,
                    inbox, touched, lifeVars, sendVars, recvVars, allocVars,
                    copyVars, callVars >>

NextLocks ==
    \E t \in VMs :
        \/ \E d \in VMs : LkSendStart(t, d)
        \/ LkLockAlloc(t)
        \/ \E collected \in BOOLEAN : LkCopy(t, collected)
        \/ LkLockInbox(t)
        \/ LkLockBlock(t)
        \/ LkSendReturn(t)
        \/ LkRecvCall(t)
        \/ LkRecvLockBlock(t)
        \/ LkRecvScan(t)
        \/ LkRecvLockInbox(t)
        \/ LkRecvCompact(t)

SpecLocks == Init /\ [][NextLocks]_vars

-----------------------------------------------------------------------------
(* The bump allocator: allocate(size, outerlock) *)

\* sizeof(size_t), the size header in front of every chunk (LP64).
HeaderSize == 8

\* Sizes of the LP64 build, in bytes.
ClosureSize    == 16     \* sizeof(Closure)
ValSize        == 8      \* sizeof(VAL)
ManagedPtrSize == 16     \* sizeof(ManagedPtr)
StrOffsetSize  == 16     \* sizeof(StrOffset): a VAL and a size_t
MpzSize        == 16     \* sizeof(mpz_t), the limbs handle MKBIGMc copies

\* A rounding that skips the test (size & 7) != 0.
RoundSize_Always(size) == 8 + ((size \div 8) * 8)

\* if ((size & 7) != 0) { size = 8 + ((size >> 3) << 3); }
RoundSize(size) == IF size % 8 # 0 THEN 8 + ((size \div 8) * 8) ELSE size

\* size_t chunk_size = size + sizeof(size_t);
ChunkSize(size) == size + HeaderSize

\* A space check that accepts the chunk that ends exactly at heap.end.
Fits_Inclusive(next, chunk, end) == next + chunk <= end

\* vm->heap.next + chunk_size < vm->heap.end
Fits(next, chunk, end) == next + chunk < end

\* int lock = vm->processes > 0 && !outerlock;
NeedLock(vm, outerlock) == processes[vm] > 0 /\ ~outerlock

\* The machine the allocator works on: pthread_getspecific(vm_key). The owner's
\* thread is bound to its own machine; a peer inside copyTo(dest, ..) has set
\* the key to dest. Under SpecAlloc every allocation is on B's heap.
HeapVM == "B"
Owner  == "B"
Peer   == "A"

\* Sizes passed to allocate and idris_requireAlloc: every multiple of 8 up to
\* the heap size, one byte more and one byte less.
ReqSizes  == {s \in 0..HeapSize : s % 8 \in {0, 1, 7}}
CopySizes == {16, 24}             \* cell sizes a copied message is made of

\* The frame of a fresh call allocate(size, outerlock) made by t, which
\* continues at pc value cont when the call returns.
NewCall(size, outerlock, cont) ==
    [op |-> "allocate", req |-> size, size |-> size, outer |-> outerlock,
     lock |-> FALSE, gcs |-> 0, cont |-> cont,
     checked |-> FALSE, free0 |-> 0, fast |-> FALSE, chunk |-> 0]

\* idris_gc(vm), by its contract (the collector is not part of this file): the
\* live cells are moved to the start of the region, next is set behind them,
\* and the collection counter advances. The live size is any multiple of 8 up
\* to the old next.
LiveSizes(vm) == {l \in 0..heap_next[vm] : l % 8 = 0}

idris_gc(vm, live) ==
    /\ collections[vm] < MaxCollections
    /\ collections' = [collections EXCEPT ![vm] = @ + 1]
    /\ heap_next' = [heap_next EXCEPT ![vm] = live]
    /\ heap_end' = heap_end

\* A collection of vm's heap invalidates the pointers of every open
\* requireAlloc window on it.
MarkWindows(vm) ==
    [t \in VMs |-> IF t = vm /\ win[t].open
                     THEN [win[t] EXCEPT !.gc = TRUE] ELSE win[t]]

\* VM* vm = pthread_getspecific(vm_key);
\* int lock = vm->processes > 0 && !outerlock;
\* if (lock) { pthread_mutex_lock(&vm->alloc_lock); }
AllocEnter(t) ==
    /\ ~exited /\ pc[t] = "a_enter"
    /\ LET lock == NeedLock(HeapVM, al[t].outer)
       IN  /\ lock => CanLockRec(alloc_lock[HeapVM], t)
           /\ alloc_lock' = IF lock
                              THEN [alloc_lock EXCEPT ![HeapVM] = LockRec(@, t)]
                              ELSE alloc_lock
           /\ al' = [al EXCEPT ![t].lock = lock]
    /\ pc' = [pc EXCEPT ![t] = "a_check"]
    /\ UNCHANGED << exited, processes, heapVars, inbox_lock, inbox_block,
                    msgVars, lifeVars, sendVars, recvVars, win, copyVars,
                    callVars >>

\* the rounding, chunk_size, and the space check
AllocCheck(t) ==
    /\ ~exited /\ pc[t] = "a_check"
    /\ LET size  == RoundSize(al[t].size)
           chunk == ChunkSize(size)
           ok    == Fits(heap_next[HeapVM], chunk, heap_end[HeapVM])
       IN  /\ al' = [al EXCEPT ![t].size = size,
                               ![t].chunk = chunk,
                               ![t].checked = TRUE,
                               ![t].free0 = IF al[t].checked THEN @
                                   ELSE heap_end[HeapVM] - heap_next[HeapVM],
                               ![t].fast = IF al[t].checked THEN @ ELSE ok]
           /\ pc' = [pc EXCEPT ![t] = IF ok THEN "a_bump" ELSE "a_gc"]
    /\ UNCHANGED << exited, processes, heapVars, lockVars, msgVars, lifeVars,
                    sendVars, recvVars, win, copyVars, callVars >>

\* void* ptr = (void*)(vm->heap.next + sizeof(size_t));
\* *((size_t*)(vm->heap.next)) = chunk_size;
\* vm->heap.next += chunk_size;
\* assert(vm->heap.next <= vm->heap.end);
\* memset(ptr, 0, size);
AllocBump(t) ==
    /\ ~exited /\ pc[t] = "a_bump"
    /\ heap_next' = [heap_next EXCEPT ![HeapVM] = @ + al[t].chunk]
    /\ al' = [al EXCEPT ![t] =
                 [op |-> "returned", req |-> al[t].req, outer |-> al[t].outer,
                  lock |-> al[t].lock, gcs |-> al[t].gcs, cont |-> al[t].cont,
                  chunk |-> al[t].chunk,
                  old_next |-> heap_next[HeapVM],
                  hdr_at |-> heap_next[HeapVM], hdr_val |-> al[t].chunk,
                  ptr |-> heap_next[HeapVM] + HeaderSize,
                  new_next |-> heap_next'[HeapVM]]]
    /\ IF heap_next'[HeapVM] <= heap_end[HeapVM]
         THEN /\ exited' = exited
              /\ pc' = [pc EXCEPT ![t] = "a_ret"]
         ELSE /\ exited' = TRUE
              /\ pc' = [pc EXCEPT ![t] = "assert_failed"]
    /\ UNCHANGED << processes, heap_end, collections, lockVars, msgVars,
                    lifeVars, sendVars, recvVars, win, copyVars, callVars >>

\* if (lock) { pthread_mutex_unlock(&vm->alloc_lock); }  return ptr;
AllocReturn(t) ==
    /\ ~exited /\ pc[t] = "a_ret"
    /\ alloc_lock' = IF al[t].lock
                       THEN [alloc_lock EXCEPT ![HeapVM] = UnlockRec(@)]
                       ELSE alloc_lock
    /\ al' = [al EXCEPT ![t] = NoCall]
    /\ pc' = [pc EXCEPT ![t] = al[t].cont]
    /\ UNCHANGED << exited, processes, heapVars, inbox_lock, inbox_block,
                    msgVars, lifeVars, sendVars, recvVars, win, copyVars,
                    callVars >>

\* idris_gc(vm); if (lock) unlock; return allocate(size, 0);
AllocGC(t) ==
    /\ ~exited /\ pc[t] = "a_gc"
    /\ \E live \in LiveSizes(HeapVM) : idris_gc(HeapVM, live)
    /\ alloc_lock' = IF al[t].lock
                       THEN [alloc_lock EXCEPT ![HeapVM] = UnlockRec(@)]
                       ELSE alloc_lock
    /\ al' = [al EXCEPT ![t].outer = FALSE, ![t].lock = FALSE,
                        ![t].gcs = @ + 1]
    /\ win' = MarkWindows(HeapVM)
    /\ pc' = [pc EXCEPT ![t] = "a_enter"]
    /\ UNCHANGED << exited, processes, inbox_lock, inbox_block, msgVars,
                    lifeVars, sendVars, recvVars, copyVars, callVars >>

-----------------------------------------------------------------------------
(* The owner's thread: normal constructors and the allocation guard *)

\* A normal constructor or idris_alloc: allocate(size, 0).
OwnerAlloc(size) ==
    /\ ~exited /\ pc[Owner] = "idle" /\ ~win[Owner].open
    /\ al' = [al EXCEPT ![Owner] = NewCall(size, FALSE, "idle")]
    /\ pc' = [pc EXCEPT ![Owner] = "a_enter"]
    /\ UNCHANGED << exited, processes, heapVars, lockVars, msgVars, lifeVars,
                    sendVars, recvVars, win, copyVars, callVars >>

\* MKB8, MKB16, MKB32, MKB64: Closure* cl = allocate(sizeof(Closure), 1);
\* a word cell made outside any idris_requireAlloc window.
MKB8 ==
    /\ ~exited /\ pc[Owner] = "idle" /\ ~win[Owner].open
    /\ al' = [al EXCEPT ![Owner] = NewCall(ClosureSize, TRUE, "idle")]
    /\ pc' = [pc EXCEPT ![Owner] = "a_enter"]
    /\ UNCHANGED << exited, processes, heapVars, lockVars, msgVars, lifeVars,
                    sendVars, recvVars, win, copyVars, callVars >>

\* idris_requireAlloc(size): if (!(vm->heap.next + size < vm->heap.end))
RequireNeedsGC(vm, size) == ~(heap_next[vm] + size < heap_end[vm])

RequireAlloc(size) ==
    /\ ~exited /\ pc[Owner] = "idle" /\ ~win[Owner].open
    /\ win' = [win EXCEPT ![Owner] =
                  [open |-> FALSE, left |-> size, gc |-> FALSE,
                   locked |-> FALSE]]
    /\ pc' = [pc EXCEPT ![Owner] =
                 IF RequireNeedsGC(Owner, size) THEN "q_gc" ELSE "q_lock"]
    /\ UNCHANGED << exited, processes, heapVars, lockVars, msgVars, lifeVars,
                    sendVars, recvVars, al, copyVars, callVars >>

\* idris_gc(vm);                     (inside idris_requireAlloc)
RequireGC ==
    /\ ~exited /\ pc[Owner] = "q_gc"
    /\ \E live \in LiveSizes(Owner) : idris_gc(Owner, live)
    /\ pc' = [pc EXCEPT ![Owner] = "q_lock"]
    /\ UNCHANGED << exited, processes, lockVars, msgVars, lifeVars, sendVars,
                    recvVars, allocVars, copyVars, callVars >>

\* int lock = vm->processes > 0; if (lock) pthread_mutex_lock(&vm->alloc_lock);
\* The window is open when idris_requireAlloc returns.
RequireLock ==
    /\ ~exited /\ pc[Owner] = "q_lock"
    /\ LET lock == processes[Owner] > 0
       IN  /\ lock => CanLockRec(alloc_lock[Owner], Owner)
           /\ alloc_lock' = IF lock
                              THEN [alloc_lock EXCEPT ![Owner] = LockRec(@, Owner)]
                              ELSE alloc_lock
           /\ win' = [win EXCEPT ![Owner].open = TRUE, ![Owner].locked = lock]
    /\ pc' = [pc EXCEPT ![Owner] = "idle"]
    /\ UNCHANGED << exited, processes, heapVars, inbox_lock, inbox_block,
                    msgVars, lifeVars, sendVars, recvVars, al, copyVars,
                    callVars >>

\* A guarded constructor inside the window: allocate(size, 1). The requested
\* sizes of the window total at most the size given to idris_requireAlloc.
GuardedAlloc(size) ==
    /\ ~exited /\ pc[Owner] = "idle" /\ win[Owner].open
    /\ size <= win[Owner].left
    /\ win' = [win EXCEPT ![Owner].left = @ - size]
    /\ al' = [al EXCEPT ![Owner] = NewCall(size, TRUE, "idle")]
    /\ pc' = [pc EXCEPT ![Owner] = "a_enter"]
    /\ UNCHANGED << exited, processes, heapVars, lockVars, msgVars, lifeVars,
                    sendVars, recvVars, copyVars, callVars >>

\* idris_doneAlloc(): int lock = vm->processes > 0; if (lock) unlock.
DoneAlloc ==
    /\ ~exited /\ pc[Owner] = "idle" /\ win[Owner].open
    /\ alloc_lock' = IF processes[Owner] > 0
                       THEN [alloc_lock EXCEPT ![Owner] = UnlockRec(@)]
                       ELSE alloc_lock
    /\ win' = [win EXCEPT ![Owner] = NoWindow]
    /\ UNCHANGED << pc, exited, processes, heapVars, inbox_lock, inbox_block,
                    msgVars, lifeVars, sendVars, recvVars, al, copyVars,
                    callVars >>

-----------------------------------------------------------------------------
(* A peer's thread copying a message into the owner's heap              *)
(* (idris_sendMessage: lock dest->alloc_lock; copyTo(dest, msg); unlock) *)

PeerLock ==
    /\ ~exited /\ pc[Peer] = "idle"
    /\ CanLockRec(alloc_lock[HeapVM], Peer)
    /\ alloc_lock' = [alloc_lock EXCEPT ![HeapVM] = LockRec(@, Peer)]
    /\ cp' = [cp EXCEPT ![Peer] = [op |-> "peercopy", ncells |-> 0]]
    /\ pc' = [pc EXCEPT ![Peer] = "p_copy"]
    /\ UNCHANGED << exited, processes, heapVars, inbox_lock, inbox_block,
                    msgVars, lifeVars, sendVars, recvVars, allocVars, cells,
                    callVars >>

\* doCopyTo allocates one cell of the copy with outerlock = 1.
PeerCopyCell(size) ==
    /\ ~exited /\ pc[Peer] = "p_copy"
    /\ cp[Peer].ncells < MaxCopyCells
    /\ cp' = [cp EXCEPT ![Peer].ncells = @ + 1]
    /\ al' = [al EXCEPT ![Peer] = NewCall(size, TRUE, "p_copy")]
    /\ pc' = [pc EXCEPT ![Peer] = "a_enter"]
    /\ UNCHANGED << exited, processes, heapVars, lockVars, msgVars, lifeVars,
                    sendVars, recvVars, win, cells, callVars >>

PeerUnlock ==
    /\ ~exited /\ pc[Peer] = "p_copy"
    /\ cp[Peer].ncells >= 1
    /\ alloc_lock' = [alloc_lock EXCEPT ![HeapVM] = UnlockRec(@)]
    /\ cp' = [cp EXCEPT ![Peer] = NoCall]
    /\ pc' = [pc EXCEPT ![Peer] = "idle"]
    /\ UNCHANGED << exited, processes, heapVars, inbox_lock, inbox_block,
                    msgVars, lifeVars, sendVars, recvVars, allocVars, cells,
                    callVars >>

\* B is a spawned machine (vmThread: vm->processes = 1) with its parent A as the
\* peer that sends to it.
InitAlloc ==
    /\ InitVMs
    /\ processes = [m \in VMs |-> 1]
    /\ al = [t \in VMs |-> NoCall]
    /\ win = [t \in VMs |-> NoWindow]
    /\ InitHeap(HeapSize)
    /\ cells = [m \in VMs |-> << >>]
    /\ cp = [t \in VMs |-> NoCall]

NextAlloc ==
    \/ \E size \in ReqSizes : OwnerAlloc(size)
    \/ MKB8
    \/ \E size \in ReqSizes : RequireAlloc(size)
    \/ RequireGC
    \/ RequireLock
    \/ \E size \in ReqSizes : GuardedAlloc(size)
    \/ DoneAlloc
    \/ PeerLock
    \/ \E size \in CopySizes : PeerCopyCell(size)
    \/ PeerUnlock
    \/ \E t \in {Owner, Peer} :
          \/ AllocEnter(t)
          \/ AllocCheck(t)
          \/ AllocBump(t)
          \/ AllocReturn(t)
          \/ AllocGC(t)

SpecAlloc == InitAlloc /\ [][NextAlloc]_vars

-----------------------------------------------------------------------------
(* vmThread and runThread: the main machine B spawns the peers A and C,     *)
(* whose threads end when their function returns, while B's own thread      *)
(* makes idris_requireAlloc / idris_doneAlloc pairs. callvm->processes++    *)
(* and callvm->processes-- are a load and a store each, with no lock held.  *)

Spawned == VMs \ {Owner}

\* vmThread(callvm = Owner, f, arg), called by Owner's thread:
\* VM* vm = init_vm(...); vm->processes = 1; td->arg = copyTo(vm, arg);
\* and the load of callvm->processes++.
VmThreadInit(c) ==
    /\ ~exited /\ pc[Owner] = "idle" /\ ~win[Owner].open
    /\ c \in Spawned /\ pc[c] = "unborn"
    /\ active' = [active EXCEPT ![c] = TRUE]
    /\ processes' = [processes EXCEPT ![c] = 1]
    /\ p_load' = [p_load EXCEPT ![Owner] = processes[Owner]]
    /\ pc' = [pc EXCEPT ![Owner] = "v_inc", ![c] = "created"]
    /\ UNCHANGED << exited, heapVars, lockVars, msgVars, inbox_freed,
                    locks_destroyed, sendVars, recvVars, allocVars, copyVars,
                    s_dest, check_ret >>

\* The store of callvm->processes++;
\* pthread_create(&t, &attr, runThread, td); return vm;
VmThreadStart ==
    /\ ~exited /\ pc[Owner] = "v_inc"
    /\ processes' = [processes EXCEPT ![Owner] = p_load[Owner] + 1]
    /\ pc' = [t \in VMs |-> IF t = Owner THEN "idle"
                            ELSE IF pc[t] = "created" THEN "running"
                            ELSE pc[t]]
    /\ UNCHANGED << exited, heapVars, lockVars, msgVars, lifeVars, sendVars,
                    recvVars, allocVars, copyVars, callVars >>

\* runThread(td) of peer c: td->fn(vm, NULL) has returned;
\* the load of callvm->processes--.
RunThreadReturn(c) ==
    /\ ~exited /\ c \in Spawned /\ pc[c] = "running"
    /\ p_load' = [p_load EXCEPT ![c] = processes[Owner]]
    /\ pc' = [pc EXCEPT ![c] = "x_dec"]
    /\ UNCHANGED << exited, processes, heapVars, lockVars, msgVars, lifeVars,
                    sendVars, recvVars, allocVars, copyVars, s_dest,
                    check_ret >>

\* The store of callvm->processes--; free(td); terminate(vm); return NULL;
RunThreadExit(c) ==
    /\ ~exited /\ c \in Spawned /\ pc[c] = "x_dec"
    /\ processes' = [processes EXCEPT ![Owner] = p_load[c] - 1]
    /\ active' = [active EXCEPT ![c] = FALSE]
    /\ inbox_freed' = [inbox_freed EXCEPT ![c] = TRUE]
    /\ locks_destroyed' = [locks_destroyed EXCEPT ![c] = TRUE]
    /\ pc' = [pc EXCEPT ![c] = "terminated"]
    /\ UNCHANGED << exited, heapVars, lockVars, msgVars, sendVars, recvVars,
                    allocVars, copyVars, callVars >>

\* The main machine B after init_vm (vm->processes = 0); no peer exists yet.
InitProc ==
    /\ InitFrames
    /\ pc = [t \in VMs |-> IF t = Owner THEN "idle" ELSE "unborn"]
    /\ active = [m \in VMs |-> m = Owner]
    /\ processes = [m \in VMs |-> 0]
    /\ al = [t \in VMs |-> NoCall]
    /\ win = [t \in VMs |-> NoWindow]
    /\ InitHeap(HeapSize)
    /\ cells = [m \in VMs |-> << >>]
    /\ cp = [t \in VMs |-> NoCall]

NextProc ==
    \/ \E c \in Spawned : VmThreadInit(c)
    \/ VmThreadStart
    \/ \E c \in Spawned : RunThreadReturn(c)
    \/ \E c \in Spawned : RunThreadExit(c)
    \/ \E size \in ReqSizes : RequireAlloc(size)
    \/ RequireGC
    \/ RequireLock
    \/ DoneAlloc

SpecProc == InitProc /\ [][NextProc]_vars

-----------------------------------------------------------------------------
(* The copy of a message and the collections of the receiver's heap:       *)
(* idris_sendMessage(t, Rcv, msg) of the senders A and C, while Rcv's own   *)
(* thread allocates. cp[t] keeps, for the copy that produced dmsg, the      *)
(* value of dest->stats.collections when that copy began.                   *)

\* if (dest->active == 0) { return 0; }       Rcv is active here
\* int gcs = dest->stats.collections;
GcSendStart(t) ==
    /\ ~exited /\ t \in Senders /\ pc[t] = "idle" /\ ~DestInactive(Rcv)
    /\ TotalSent < MaxSends
    /\ nsent' = [nsent EXCEPT ![t] = @ + 1]
    /\ s_gcs' = [s_gcs EXCEPT ![t] = collections[Rcv]]
    /\ s_try' = [s_try EXCEPT ![t] = 1]
    /\ pc' = [pc EXCEPT ![t] = "g_copy"]
    /\ UNCHANGED << exited, processes, heapVars, lockVars, msgVars, lifeVars,
                    s_dmsg, s_ret, s_pend, recvVars, allocVars, copyVars,
                    callVars >>

\* The copy finds no room in dest's heap and allocate calls idris_gc.
GcCollects(gc) == gc

\* pthread_mutex_lock(&dest->alloc_lock); dmsg = copyTo(dest, msg);
\* pthread_mutex_unlock(&dest->alloc_lock);
\* After the first copy: if (dest->stats.collections > gcs) copy again; the
\* second copy is followed by no test.
GcSendCopy(t, gc) ==
    /\ ~exited /\ pc[t] = "g_copy"
    /\ CanLockRec(alloc_lock[Rcv], t)
    /\ alloc_lock' = [alloc_lock EXCEPT ![Rcv] = UnlockRec(LockRec(@, t))]
    /\ cp' = [cp EXCEPT ![t] = [op |-> "sendcopy", start |-> collections[Rcv]]]
    /\ s_dmsg' = [s_dmsg EXCEPT ![t] = nsent[t]]
    /\ IF GcCollects(gc)
         THEN \E live \in LiveSizes(Rcv) : idris_gc(Rcv, live)
         ELSE UNCHANGED heapVars
    /\ IF s_try[t] = 1 /\ collections'[Rcv] > s_gcs[t]
         THEN /\ s_try' = [s_try EXCEPT ![t] = 2]
              /\ pc' = [pc EXCEPT ![t] = "g_copy"]
         ELSE /\ s_try' = [s_try EXCEPT ![t] = 0]
              /\ pc' = [pc EXCEPT ![t] = "g_lockin"]
    /\ UNCHANGED << exited, processes, inbox_lock, inbox_block, msgVars,
                    lifeVars, s_gcs, s_ret, nsent, s_pend, recvVars, allocVars,
                    cells, callVars >>

\* pthread_mutex_lock(&(dest->inbox_lock));
\* if (InboxFull) { fprintf(stderr, "Inbox full"); exit(-1); }
GcSendLockInbox(t) ==
    /\ ~exited /\ pc[t] = "g_lockin"
    /\ inbox_lock[Rcv] = NoVM
    /\ inbox_lock' = [inbox_lock EXCEPT ![Rcv] = t]
    /\ exited' = InboxFull(inbox_write[Rcv])
    /\ pc' = [pc EXCEPT ![t] = IF InboxFull(inbox_write[Rcv])
                                 THEN "fatal_inbox_full" ELSE "g_store"]
    /\ UNCHANGED << processes, heapVars, alloc_lock, inbox_block, msgVars,
                    lifeVars, sendVars, recvVars, allocVars, copyVars,
                    callVars >>

\* dest->inbox_write->msg = dmsg; dest->inbox_write->sender = sender;
\* dest->inbox_write++;
GcSendStore(t) ==
    /\ ~exited /\ pc[t] = "g_store"
    /\ inbox' = [inbox EXCEPT ![Rcv][inbox_write[Rcv]] =
                    [msg |-> "val", sender |-> t, src |-> t,
                     seq |-> s_dmsg[t]]]
    /\ inbox_write' = [inbox_write EXCEPT ![Rcv] = @ + 1]
    /\ Touch(Rcv, inbox_write[Rcv])
    /\ pc' = [pc EXCEPT ![t] = "g_signal"]
    /\ UNCHANGED << exited, processes, heapVars, lockVars, lifeVars, sendVars,
                    recvVars, allocVars, copyVars, callVars >>

\* pthread_mutex_lock(&dest->inbox_block); pthread_cond_signal(...);
\* pthread_mutex_unlock(&dest->inbox_block);
\* pthread_mutex_unlock(&(dest->inbox_lock)); return 1;
GcSendReturn(t) ==
    /\ ~exited /\ pc[t] = "g_signal"
    /\ inbox_block[Rcv] = NoVM
    /\ inbox_lock' = [inbox_lock EXCEPT ![Rcv] = NoVM]
    /\ s_ret' = [s_ret EXCEPT ![t] = 1]
    /\ cp' = [cp EXCEPT ![t] = NoCall]
    /\ pc' = [pc EXCEPT ![t] = "idle"]
    /\ UNCHANGED << exited, processes, heapVars, alloc_lock, inbox_block,
                    msgVars, lifeVars, s_gcs, s_dmsg, s_try, nsent, s_pend,
                    recvVars, allocVars, cells, callVars >>

\* Rcv's own thread in allocate(size, 0) with no room left: it holds
\* alloc_lock (processes > 0) and calls idris_gc(vm).
GcOwnCollect ==
    /\ ~exited /\ pc[Rcv] = "idle"
    /\ CanLockRec(alloc_lock[Rcv], Rcv)
    /\ \E live \in LiveSizes(Rcv) : idris_gc(Rcv, live)
    /\ UNCHANGED << pc, exited, processes, lockVars, msgVars, lifeVars,
                    sendVars, recvVars, allocVars, copyVars, callVars >>

NextGc ==
    \/ \E t \in Senders :
          \/ GcSendStart(t)
          \/ \E gc \in BOOLEAN : GcSendCopy(t, gc)
          \/ GcSendLockInbox(t)
          \/ GcSendStore(t)
          \/ GcSendReturn(t)
    \/ GcOwnCollect

SpecGc == Init /\ [][NextGc]_vars

-----------------------------------------------------------------------------
(* Claims about the inbox protocol, checked under Spec *)

\* The receive number j returned the message of S's send number q.
Returned(j, S, q) ==
    rcvd[j].msg # NullVal /\ rcvd[j].src = S /\ rcvd[j].seq = q

\* C1 (as claimed): per-sender FIFO. Sender S numbers its sends 1, 2, ... in
\* the order in which it makes them (each returns before the next is called).
\* Whenever a receive on R has returned the message of S's send number q,
\* earlier receives have returned the messages of all S's sends before q, and
\* none of them has returned the message of a later send of S or the same
\* message, whatever the sender filters of the receives were.
C1_PerSenderFIFO ==
    \A j \in 1..Len(rcvd) : \A S \in Senders : \A q \in 1..MaxSends :
        Returned(j, S, q) =>
            /\ \A p \in 1..(q - 1) : \E i \in 1..(j - 1) : Returned(i, S, p)
            /\ \A i \in 1..(j - 1) : \A p \in q..MaxSends : ~Returned(i, S, p)

\* C2: a send that finds the recipient's active flag false returns 0 and changes
\* neither the recipient's inbox slots nor its inbox_write; and once the flag is
\* false (terminate has returned) it stays false, so this holds of every later
\* send.
C2_InactiveSendDropped ==
    [][ /\ \A t \in Senders :
             (pc[t] = "idle" /\ nsent'[t] # nsent[t] /\ ~active[Rcv]) =>
                 /\ s_ret'[t] = 0
                 /\ pc'[t] = "idle"
                 /\ inbox'[Rcv] = inbox[Rcv]
                 /\ inbox_write'[Rcv] = inbox_write[Rcv]
        /\ (~active[Rcv] => ~active'[Rcv]) ]_vars

\* Witness of C2: terminate(R) has returned and a later send came back with 0.
C2_Witness ==
    /\ pc[Rcv] = "done" /\ ~active[Rcv]
    /\ \E t \in Senders : pc[t] = "idle" /\ nsent[t] >= 1 /\ s_ret[t] = 0

\* C3 (as claimed): every inbox slot that send or receive has read or written
\* lies inside the memory init_vm allocated for the inbox, for any number of
\* pending messages up to the capacity, and the only fatal send is one
\* attempted while all InboxSlots slots are pending.
C3_InboxAccessInsideAllocation ==
    /\ \A m \in VMs : (touched[m] + 1) * MsgWords <= InboxAllocWords
    /\ \A t \in Senders :
          pc[t] = "fatal_inbox_full" => inbox_write[Rcv] = InboxSlots

\* A message that passes the filter of the running receive has been enqueued:
\* a slot of [inbox, inbox_write) matches and the stores of every send that
\* has reached lines 863-865 are in memory.
MatchPending ==
    /\ idris_getMessageFrom(inbox[Rcv], inbox_write[Rcv], r_filter) # -1
    /\ \A t \in Senders : s_pend[t] = {}

\* The receiver's thread is inside the wait loop of idris_recvMessageFrom.
InWaitLoop == pc[Rcv] \in {"r_scan", "r_wait"}

\* C12: blocking receive is live. Whenever the receiver is in the wait loop of
\* idris_recvMessageFrom(R, S) - before its check or inside the timed wait -
\* and a message matching S (any message when S is NULL) has been enqueued,
\* the call returns later on, unless the whole process ends first (a send that
\* finds the inbox full calls exit). The end of a timed wait leads back to the
\* check and to nothing else.
C12_BlockingReceiveLive ==
    /\ (InWaitLoop /\ MatchPending) ~> (pc[Rcv] = "idle" \/ exited)
    /\ [][pc[Rcv] = "r_wait" => pc'[Rcv] \in {"r_wait", "r_scan"}]_vars

\* Witness of C12: the receiver went into the timed wait on an inbox without a
\* match, and a sender has enqueued a matching message and returned since.
C12_Witness ==
    /\ pc[Rcv] = "r_wait" /\ MatchPending /\ ~exited
    /\ \A t \in Senders : pc[t] = "idle"

\* The sends of t whose stores have been made: all its sends but the one it is
\* still copying or waiting for inbox_lock with, or found the inbox full with.
Arrived(t) ==
    {<<t, q>> : q \in 1..(nsent[t] -
                     (IF pc[t] \in {"s_copy", "s_lockin", "fatal_inbox_full"}
                        THEN 1 ELSE 0))}

\* The messages the receives have returned, and those in the pending region.
ReceivedIds == {<<rcvd[j].src, rcvd[j].seq>> : j \in 1..Len(rcvd)}
PendingIds ==
    {<<inbox[Rcv][i].src, inbox[Rcv][i].seq>> : i \in 0..(inbox_write[Rcv] - 1)}

\* C15 (as claimed): the shape of the inbox. In every state in which no thread
\* is inside the inbox_lock critical section, inbox <= inbox_write <=
\* inbox_end; every slot of [inbox_write, inbox_end) is empty (msg and sender
\* NULL), also after a receive made while the inbox was full; and the slots of
\* [inbox, inbox_write) hold exactly the messages sent and not yet received,
\* each once, those of one sender in the order of its sends.
C15_InboxShape ==
    inbox_lock[Rcv] = NoVM =>
        /\ 0 <= inbox_write[Rcv] /\ inbox_write[Rcv] <= inbox_end
        /\ \A i \in inbox_write[Rcv]..(inbox_end - 1) :
              inbox[Rcv][i].msg = NullVal /\ inbox[Rcv][i].sender = NoVM
        /\ \A i \in 0..(inbox_write[Rcv] - 1) :
              /\ inbox[Rcv][i].sender \in Senders
              /\ inbox[Rcv][i].sender = inbox[Rcv][i].src
              /\ \A k \in 0..(i - 1) :
                    inbox[Rcv][k].src = inbox[Rcv][i].src =>
                        inbox[Rcv][k].seq < inbox[Rcv][i].seq
        /\ active[Rcv] =>
              PendingIds = (UNION {Arrived(t) : t \in Senders}) \ ReceivedIds

\* C16 (as claimed): a receive removes exactly one message. The call returns
\* the earliest pending message that passes its filter, and its compaction
\* takes exactly that message out of the pending sequence: the slots in front
\* of it stay, the slots behind it move down by one in their order, and no
\* other message is lost or duplicated.
C16_ReceiveRemovesOne ==
    [][ (pc[Rcv] = "r_slide" /\ pc'[Rcv] = "idle") =>
           LET w == inbox_write[Rcv]
               first == idris_getMessageFrom(inbox[Rcv], w, r_filter)
           IN  /\ first # -1
               /\ rcvd' = Append(rcvd, inbox[Rcv][first])
               /\ inbox[Rcv][first].msg # NullVal
               /\ inbox_write'[Rcv] = w - 1
               /\ \A i \in 0..(w - 2) :
                     inbox'[Rcv][i] =
                         IF i < first THEN inbox[Rcv][i] ELSE inbox[Rcv][i + 1]
    ]_vars

\* The sender is past the test of dest->active and has not yet returned.
InSendBody(t) ==
    pc[t] \in {"s_copy", "s_lockin", "s_store", "s_lockblk", "s_unlockin"}

\* C22 (as claimed): active implies usable. In every state, the intermediate
\* states of terminate included, a machine whose active flag is set has its
\* inbox not freed and its inbox mutexes not destroyed; so a send that has
\* seen active != 0 works on an allocated inbox and on live mutexes.
C22_ActiveImpliesUsable ==
    /\ \A m \in VMs :
          active[m] => ~inbox_freed[m] /\ ~locks_destroyed[m]
    /\ \A t \in Senders :
          InSendBody(t) => ~inbox_freed[Rcv] /\ ~locks_destroyed[Rcv]

-----------------------------------------------------------------------------
(* Claims about the non-blocking check, checked under SpecSeq *)

\* C13 (as claimed): after any sequence of sends and receives on R,
\* idris_checkMessagesFrom(R, S) returns the sender of the first slot of
\* [inbox, inbox_write) that matches S (any slot when S is NULL), and NULL
\* exactly when no slot of that region matches, which is when
\* idris_recvMessageFrom(R, S) would wait.
C13_CheckAgreesWithPending ==
    check_ret.called =>
        LET found == idris_getMessageFrom(inbox[Rcv], inbox_write[Rcv],
                                          check_ret.filter)
        IN  /\ (found = -1) <=> (check_ret.sender = NoVM)
            /\ found # -1 => check_ret.sender = inbox[Rcv][found].sender

-----------------------------------------------------------------------------
(* Claims about the lock discipline, checked under SpecLocks *)

\* The mutex thread t stands in front of: its kind and the machine it is of.
Requested(t) ==
    CASE pc[t] = "k_alloc"   -> [kind |-> "alloc_lock", vm |-> s_dest[t]]
      [] pc[t] = "k_lockin"  -> [kind |-> "inbox_lock", vm |-> s_dest[t]]
      [] pc[t] = "k_lockblk" -> [kind |-> "inbox_block", vm |-> s_dest[t]]
      [] pc[t] \in {"k_rblock", "k_rwait"}
                             -> [kind |-> "inbox_block", vm |-> t]
      [] pc[t] = "k_rlockin" -> [kind |-> "inbox_lock", vm |-> t]
      [] OTHER               -> [kind |-> "none", vm |-> NoVM]

\* The thread that holds the mutex t stands in front of (NoVM: nobody).
Holder(t) ==
    LET q == Requested(t)
    IN  CASE q.kind = "alloc_lock"  -> alloc_lock[q.vm].owner
          [] q.kind = "inbox_lock"  -> inbox_lock[q.vm]
          [] q.kind = "inbox_block" -> inbox_block[q.vm]
          [] OTHER                  -> NoVM

\* t cannot go on: the mutex it requests is held by another thread.
Blocked(t) == Holder(t) \notin {NoVM, t}

InSend(t) == pc[t] \in {"k_alloc", "k_copy", "k_lockin", "k_lockblk", "k_signal"}
InRecv(t) == pc[t] \in {"k_rblock", "k_scan", "k_rwait", "k_rlockin", "k_slide"}

\* C18: the lock discipline is free of deadlock. With every machine sending
\* to any machine and receiving on its own inbox, in every interleaving:
\* a sender that requests alloc_lock holds no inbox_lock and no inbox_block;
\* a receiver never holds its inbox_block and its inbox_lock together; and
\* there is no set of threads each of which is blocked on a mutex held by a
\* thread of the set (so the threads are never all blocked on mutexes).
C18_LockDiscipline ==
    /\ \A t \in VMs : pc[t] = "k_alloc" =>
          \A m \in VMs : inbox_lock[m] # t /\ inbox_block[m] # t
    /\ \A t \in VMs : InRecv(t) => ~(inbox_block[t] = t /\ inbox_lock[t] = t)
    /\ ~\E S \in (SUBSET VMs) \ {{}} :
          \A t \in S : Blocked(t) /\ Holder(t) \in S
    /\ ~exited => \E t \in VMs : ~Blocked(t)

\* Two machines are in sends to each other, one of them blocked on a mutex of
\* the other machine that the third thread holds.
C18_Witness ==
    /\ ~exited
    /\ \E t, u \in VMs :
          /\ t # u /\ InSend(t) /\ InSend(u)
          /\ s_dest[t] = u /\ s_dest[u] = t
          /\ Blocked(t) /\ Holder(t) \notin {t, u}

-----------------------------------------------------------------------------
(* Claims about the processes counter, checked under SpecProc *)

\* C19 (as claimed): idris_requireAlloc and idris_doneAlloc are balanced on
\* alloc_lock. The owner's thread holds alloc_lock zero times before a
\* Require; after the Done of the pair it holds it zero times again, also
\* when a peer has terminated between the two calls: outside a window and
\* outside both calls the owner's hold count is 0.
C19_RequireDoneBalanced ==
    (pc[Owner] \in {"idle", "v_inc"} /\ ~win[Owner].open) =>
        alloc_lock[Owner].count = 0

\* The peers whose thread has been started and has not yet returned from its
\* function.
LivePeers == {c \in Spawned : pc[c] = "running"}

\* No thread is between the load and the store of an update of the counter.
NoUpdateRunning ==
    pc[Owner] # "v_inc" /\ \A c \in Spawned : pc[c] # "x_dec"

\* C20 (as claimed): the processes counter counts the live peers. The main
\* machine starts with processes = 0; in every interleaving of spawns and
\* peer terminations its counter is never negative, and whenever no update of
\* the counter is under way it equals the number of spawned peers that have
\* not yet terminated.
C20_ProcessesCountsPeers ==
    /\ processes[Owner] >= 0
    /\ NoUpdateRunning => processes[Owner] = Cardinality(LivePeers)

-----------------------------------------------------------------------------
(* Claims about the copy of a message, checked under SpecGc *)

\* C21 (as claimed): every value idris_sendMessage stores in an inbox slot is
\* a valid reference when it is stored. At the store of dmsg the collections
\* counter of the receiver's heap has the value it had when the copy that
\* produced dmsg began: no collection, by the receiver's own thread, by
\* another sender or by the copy itself, lies between the two.
C21_StoredValueValid ==
    [][ \A t \in Senders :
          (pc[t] = "g_store" /\ pc'[t] = "g_signal") =>
              collections[Rcv] = cp[t].start ]_vars

-----------------------------------------------------------------------------
(* Claims about the allocator, checked under SpecAlloc *)

\* The least multiple of 8 that is >= s.
round_up_8(s) == CHOOSE m \in s..(s + 7) : m % 8 = 0

InCall(t) == al[t].op = "allocate"

\* C4 (as claimed): one allocate call collects at most once: a failed space
\* check is followed by one collection and one retry, and a retry whose space
\* check fails is not followed by another collection.
C4_AtMostOneCollection ==
    \A t \in VMs :
        InCall(t) => /\ al[t].gcs <= 1
                     /\ (pc[t] = "a_gc" => al[t].gcs = 0)

\* C5 (as claimed): a request of exactly end - next - header_size bytes passes
\* the first space check (no collection), and a request one byte larger does
\* not.
C5_ExactFitSucceeds ==
    \A t \in VMs :
        (InCall(t) /\ al[t].checked) =>
            /\ (al[t].req = al[t].free0 - HeaderSize => al[t].fast)
            /\ (al[t].req = al[t].free0 - HeaderSize + 1 => ~al[t].fast)

\* C5 (amended): a request of s bytes is served without a collection exactly
\* when round_up_8(s) + header_size is strictly less than end - next. In the
\* 8-aligned heap a request of exactly end - next - header_size bytes therefore
\* triggers a collection; the largest request served on the fast path is
\* end - next - header_size - 8 bytes, and one byte more triggers a collection.
C5_FastPathBoundary ==
    \A t \in VMs :
        (InCall(t) /\ al[t].checked) =>
            /\ al[t].fast <=> (round_up_8(al[t].req) + HeaderSize < al[t].free0)
            /\ (al[t].req = al[t].free0 - HeaderSize => ~al[t].fast)
            /\ (al[t].req = al[t].free0 - HeaderSize - 8 => al[t].fast)
            /\ (al[t].req = al[t].free0 - HeaderSize - 8 + 1 => ~al[t].fast)

\* Witness of C5: a request of exactly end - next - header_size bytes is about
\* to collect, and the heap is not empty.
C5_Witness ==
    \E t \in VMs :
        /\ InCall(t) /\ al[t].checked /\ al[t].gcs = 0 /\ pc[t] = "a_gc"
        /\ al[t].req = al[t].free0 - HeaderSize
        /\ al[t].free0 < HeapSize

\* C6: when allocate(s) succeeds, the chunk is round_up_8(s) + header_size
\* bytes, that number is the size header written at the old next, next has
\* advanced by exactly the chunk, and the pointer returned is the old next +
\* header_size and is 8-byte aligned.
C6_ChunkAndAlignment ==
    \A t \in VMs :
        al[t].op = "returned" =>
            /\ al[t].chunk = round_up_8(al[t].req) + HeaderSize
            /\ al[t].hdr_at = al[t].old_next
            /\ al[t].hdr_val = al[t].chunk
            /\ al[t].new_next = al[t].old_next + al[t].chunk
            /\ al[t].ptr = al[t].old_next + HeaderSize
            /\ al[t].ptr % 8 = 0

\* Witness of C6: an allocation of a size that is a multiple of 8 has
\* succeeded behind earlier chunks, after a collection.
C6_Witness ==
    \E t \in VMs :
        /\ al[t].op = "returned" /\ pc[t] = "a_ret"
        /\ al[t].req % 8 = 0 /\ al[t].req > 0
        /\ al[t].old_next > 0 /\ al[t].gcs = 1

\* C7 (as claimed): while a requireAlloc window is open (guarded allocations
\* totalling at most the reserved size, before doneAlloc) no collection of
\* that machine's heap happens.
C7_NoCollectionInWindow ==
    \A t \in VMs : win[t].open => ~win[t].gc

\* C24 (as claimed): bounds and monotonicity of the heap cursor. In every
\* state heap start <= next <= end and the assertion of allocate has not
\* failed; a step that runs no collection never lowers next, and changes it
\* only as the bump of a successful allocate call, by that call's chunk
\* size.
C24_HeapCursor ==
    /\ [](\A m \in VMs : 0 <= heap_next[m] /\ heap_next[m] <= heap_end[m])
    /\ [](\A t \in VMs : pc[t] # "assert_failed")
    /\ [][ \A m \in VMs :
             (collections'[m] = collections[m] /\ heap_next'[m] # heap_next[m])
                 => \E t \in VMs :
                       /\ pc[t] = "a_bump" /\ al'[t].op = "returned"
                       /\ heap_next'[m] = heap_next[m] + al'[t].chunk
                       /\ al'[t].chunk = round_up_8(al'[t].req) + HeaderSize
       ]_vars

\* C11 (as claimed): heap mutual exclusion. While a peer thread holds B's
\* alloc_lock for the copy of a message into B's heap, no step of B's owning
\* thread moves B's heap.next or collects B's heap, be it inside allocate or
\* inside idris_requireAlloc.
C11_HeapMutualExclusion ==
    [][ (alloc_lock[HeapVM].owner = Peer /\ pc'[Owner] # pc[Owner]) =>
            /\ heap_next'[HeapVM] = heap_next[HeapVM]
            /\ collections'[HeapVM] = collections[HeapVM] ]_vars

\* C17 (as claimed): when processes > 0, the bump of heap.next made for a normal
\* constructor or allocator entry point (one called outside a requireAlloc
\* window: MKFLOAT, MKSTR, MKPTR, MKMPTR, MKCDATA, MKB8 .. MKB64, idris_alloc)
\* is made with the machine's alloc_lock held by the owning thread.
C17_NormalAllocLocked ==
    (pc[Owner] = "a_bump" /\ ~win[Owner].open /\ processes[HeapVM] > 0) =>
        alloc_lock[HeapVM].owner = Owner

-----------------------------------------------------------------------------
(* Values and cells (VAL, Closure) *)

\* init_nullaries: the tags 0 .. 255 have a process-wide cell.
NullaryTags == 256

\* A VAL is NULL, an inline integer (ISINT), or a pointer to a cell. A pointer
\* names the heap it points into, the collection count of that heap at the time
\* the cell was allocated, and the cell's place; a pointer left uninitialised is
\* Wild.
Null         == [k |-> "null"]
MKINT(n)     == [k |-> "int", v |-> n]
Ref(h, g, a) == [k |-> "ref", heap |-> h, gen |-> g, at |-> a]
Wild         == [k |-> "wild"]

\* nullary_cons[i], a cell outside every machine's heap
nullary_cons(i) == Ref("global", 0, i)

\* A cell: its type (GETTY), the constructor tag, the VALs it holds, its bytes
\* of payload, and whether info.str is NULL.
Cell(ty, tag, args, pay, isnull) ==
    [ty |-> ty, tag |-> tag, args |-> args, pay |-> pay, null |-> isnull]

Con(tag, args) == Cell("CON", tag, args, << >>, FALSE)
Leaf(ty, pay)  == Cell(ty, 0, << >>, pay, FALSE)

\* cl = malloc(sizeof(Closure)); SETTY(cl, CT_CON); tag_arity = i << 8;
NullaryCell(i) == Con(i, << >>)

\* The cells of A's heap that the copies start from, by place:
\*  MKFLOAT, MKSTR("abc"), MKSTR(NULL), idris_strTail of cell 2, a bigint,
\*  MKPTR, MKMPTR of 3 bytes, the four word cells, idris_alloc(8), and
\*  constructors over them (tag 300 is a zero-arity constructor too large for
\*  the nullary table).
SrcHeap ==
    << Leaf("FLOAT", <<15>>),
       Leaf("STRING", <<97, 98, 99>>),
       Cell("STRING", 0, << >>, << >>, TRUE),
       Cell("STROFFSET", 0, <<Ref("A", 0, 2)>>, <<1>>, FALSE),
       Leaf("BIGINT", <<1, 0, 0, 0, 0, 0, 0, 0, 1>>),
       Leaf("PTR", <<4096>>),
       Leaf("MANAGEDPTR", <<1, 2, 3>>),
       Leaf("BITS8", <<255>>),
       Leaf("BITS16", <<65535>>),
       Leaf("BITS32", <<7>>),
       Leaf("BITS64", <<9>>),
       Leaf("RAWDATA", <<9, 9, 9, 9, 9, 9, 9, 9>>),
       Con(1, <<MKINT(7), Ref("A", 0, 1)>>),
       Con(2, <<nullary_cons(0), Ref("A", 0, 13)>>),
       Con(300, << >>),
       Con(3, <<Ref("A", 0, 4)>>),
       Con(4, <<Ref("A", 0, 3), nullary_cons(255)>>) >>

\* The values copyTo is called with.
SrcValues ==
    {Null, MKINT(5), nullary_cons(0), nullary_cons(255)}
        \cup {Ref("A", 0, i) : i \in 1..Len(SrcHeap)}

\* A pointer is good while its heap has not been collected since the cell was
\* allocated (the collector moves every cell).
ValidRef(v) ==
    IF v.heap = "global" THEN TRUE ELSE v.gen = collections[v.heap]

\* The cell a good pointer points to.
Deref(hp, v) == IF v.heap = "global" THEN NullaryCell(v.at) ELSE hp[v.heap][v.at]

-----------------------------------------------------------------------------
(* The cross-machine copy: doCopyTo(vm, x) *)

\* A copy that treats no constructor as globally allocated.
IsSharedNullary_Never(ar, tag) == FALSE

\* ar == 0 && CTAG(x) < 256                                // globally allocated
IsSharedNullary(ar, tag) == ar = 0 /\ tag < NullaryTags

\* strlen / strcpy: the characters in front of the first NUL.
RECURSIVE CStr(_)
CStr(chars) ==
    IF chars = << >> \/ Head(chars) = 0 THEN << >>
    ELSE <<Head(chars)>> \o CStr(Tail(chars))

\* The state a running doCopyTo carries: the target machine st.vm, the cells
\* st.heap it has put there, the target's heap.next, heap.end and collection
\* count, the size st.live of the target's own live data (what a collection
\* keeps), whether the build has NDEBUG, how the copy goes on (st.status) and
\* the VAL being returned (st.val).
CopyState(vm, live, ndebug) ==
    [vm |-> vm, heap |-> cells[vm], next |-> heap_next[vm],
     end |-> heap_end[vm], gcs |-> collections[vm], live |-> live,
     ndebug |-> ndebug, status |-> "ok", val |-> Null, lost |-> FALSE]

\* allocate(size, outerlock) as doCopyTo calls it, on the target's heap. When
\* the chunk does not fit, idris_gc runs and allocate calls itself: the
\* collection keeps the target's own live data and not the cells of the
\* unfinished copy, which no root refers to; when the chunk does not fit
\* behind the live data either, the recursion goes on collecting and never
\* returns.
CopyAlloc(st, size) ==
    LET chunk == ChunkSize(RoundSize(size))
    IN  IF Fits(st.next, chunk, st.end)
          THEN [st EXCEPT !.next = @ + chunk]
        ELSE IF Fits(st.live, chunk, st.end)
          THEN [st EXCEPT !.next = st.live + chunk, !.gcs = @ + 1,
                          !.heap = << >>]
        ELSE [st EXCEPT !.next = st.live, !.gcs = @ + 1, !.heap = << >>,
                        !.status = "no_return"]

\* A constructor function of the copy (MKFLOATc, MKSTRc, ..): allocate, then
\* fill the cell in; the pointer returned is st.val.
MkCell(st, size, cell) ==
    LET s1 == CopyAlloc(st, size)
    IN  IF s1.status # "ok" THEN s1
        ELSE [s1 EXCEPT !.heap = Append(@, cell),
                        !.val = Ref(st.vm, s1.gcs, Len(s1.heap) + 1)]

\* allocCon(cl, vm, tag, arity, 1): a constructor cell of arity zeroed
\* arguments.
allocCon(st, tag, arity) ==
    MkCell(st, ClosureSize + ValSize * arity,
           Con(tag, [i \in 1..arity |-> Null]))

\* MKSTRc(vm, str): strlen(str) of a NULL str is undefined; the build reads
\* address 0 and the process dies.
MKSTRc(st, c) ==
    IF c.null THEN [st EXCEPT !.status = "crash"]
    ELSE MkCell(st, ClosureSize + Len(CStr(c.pay)) + 1,
                Cell("STRING", 0, << >>, CStr(c.pay), FALSE))

\* MKMPTRc(vm, data, size): memcpy of size bytes behind the ManagedPtr.
MKMPTRc(st, c) ==
    MkCell(st, ClosureSize + ManagedPtrSize + Len(c.pay),
           Leaf("MANAGEDPTR", c.pay))

\* MKBIGMc(vm, big): a bigint cell holding a copy of the number.
MKBIGMc(st, c) == MkCell(st, ClosureSize + MpzSize, Leaf("BIGINT", c.pay))

\* idris_b8CopyForGC .. idris_b64CopyForGC: a word cell of the same width
\* holding the same bits.
idris_bitsCopyForGC(st, c) == MkCell(st, ClosureSize, Leaf(c.ty, c.pay))

\* *argptr = <the copy of the argument>: the store goes through cl. After a
\* collection of the target, cl points at where the cell was and the store
\* does not reach the heap.
StoreArg(st, cl, i) ==
    IF cl.gen = st.gcs THEN [st EXCEPT !.heap[cl.at].args[i] = st.val]
    ELSE [st EXCEPT !.lost = TRUE]

RECURSIVE doCopyTo(_, _)
RECURSIVE CopyArgs(_, _, _, _)

\* for (i = 0; i < ar; ++i) { *argptr = doCopyTo(vm, args[i]); argptr++; }
CopyArgs(st, cl, args, i) ==
    IF i > Len(args) THEN [st EXCEPT !.val = cl]
    ELSE LET s2 == doCopyTo(st, args[i])
         IN  IF s2.status # "ok" THEN s2
             ELSE CopyArgs(StoreArg(s2, cl, i), cl, args, i + 1)

doCopyTo(st, x) ==
    IF x.k # "ref" THEN [st EXCEPT !.val = x]        \* x == NULL || ISINT(x)
    ELSE LET c == Deref(cells, x)
         IN  CASE c.ty = "CON" ->
                    IF IsSharedNullary(Len(c.args), c.tag)
                      THEN [st EXCEPT !.val = x]                 \* cl = x
                      ELSE LET s1 == allocCon(st, c.tag, Len(c.args))
                           IN  IF s1.status # "ok" THEN s1
                               ELSE CopyArgs(s1, s1.val, c.args, 1)
               [] c.ty = "FLOAT" -> MkCell(st, ClosureSize, Leaf("FLOAT", c.pay))
               [] c.ty = "STRING" -> MKSTRc(st, c)
               [] c.ty = "BIGINT" -> MKBIGMc(st, c)
               [] c.ty = "PTR" -> MkCell(st, ClosureSize, Leaf("PTR", c.pay))
               [] c.ty = "MANAGEDPTR" -> MKMPTRc(st, c)
               [] c.ty \in {"BITS8", "BITS16", "BITS32", "BITS64"} ->
                    idris_bitsCopyForGC(st, c)
               [] c.ty = "RAWDATA" ->       \* allocate(size, 0); memcpy
                    MkCell(st, Len(c.pay) + ClosureSize, c)
               [] OTHER ->                  \* default: assert(0);
                    IF st.ndebug THEN [st EXCEPT !.val = Wild]
                    ELSE [st EXCEPT !.status = "abort"]

-----------------------------------------------------------------------------
(* copyTo(vm, x) and its two callers: idris_sendMessage and vmThread *)

Sender  == "A"        \* sends a value of its heap to B
Spawner == "B"        \* spawns C with the value it was sent as the argument
Child   == "C"

\* The frame of copyTo(dest, x) called by thread t: key is the thread's
\* pthread_getspecific(vm_key), saved is the local variable current.
NewCopy(t, dest, x, locked) ==
    [op |-> "copyTo", x |-> x, dest |-> dest, key |-> dest, saved |-> t,
     locked |-> locked, next0 |-> heap_next[dest], gcs0 |-> collections[dest],
     status |-> "running", ret |-> Null, lost |-> FALSE]

\* idris_sendMessage(A, B, x) up to the call of copyTo:
\*   if (dest->active == 0) return 0;  gcs = dest->stats.collections;
\*   pthread_mutex_lock(&dest->alloc_lock);  copyTo(dest, msg) -->
\*   VM* current = pthread_getspecific(vm_key); pthread_setspecific(vm_key, vm);
SendMsgCopy(x) ==
    /\ ~exited /\ pc[Sender] = "idle" /\ ~DestInactive(Spawner)
    /\ CanLockRec(alloc_lock[Spawner], Sender)
    /\ alloc_lock' = [alloc_lock EXCEPT ![Spawner] = LockRec(@, Sender)]
    /\ cp' = [cp EXCEPT ![Sender] = NewCopy(Sender, Spawner, x, TRUE)]
    /\ pc' = [pc EXCEPT ![Sender] = "c_do"]
    /\ UNCHANGED << exited, processes, heapVars, inbox_lock, inbox_block,
                    msgVars, lifeVars, sendVars, recvVars, allocVars, cells,
                    callVars >>

\* vmThread(B, f, arg) up to the call of copyTo, arg being the value B was
\* sent:  vm = init_vm(..); vm->processes = 1;  td->arg = copyTo(vm, arg) -->
SpawnCopy ==
    /\ ~exited /\ pc[Spawner] = "idle"
    /\ cp[Sender].op = "returned" /\ cp[Sender].status = "ok"
    /\ IF cp[Sender].ret.k = "ref" THEN ValidRef(cp[Sender].ret) ELSE TRUE
    /\ processes' = [processes EXCEPT ![Child] = 1]
    /\ cp' = [cp EXCEPT ![Spawner] =
                 NewCopy(Spawner, Child, cp[Sender].ret, FALSE)]
    /\ pc' = [pc EXCEPT ![Spawner] = "c_do"]
    /\ UNCHANGED << exited, heapVars, lockVars, msgVars, lifeVars, sendVars,
                    recvVars, allocVars, cells, callVars >>

\* VAL ret = doCopyTo(vm, x);      every cell is allocated in the heap of the
\* machine of pthread_getspecific(vm_key) (allocate, line 208).
DoCopyTo(t) ==
    /\ ~exited /\ pc[t] = "c_do"
    /\ \E live \in LiveSizes(cp[t].key), ndebug \in BOOLEAN :
         LET d == cp[t].key
             r == doCopyTo(CopyState(d, live, ndebug), cp[t].x)
         IN  /\ cells' = [cells EXCEPT ![d] = r.heap]
             /\ heap_next' = [heap_next EXCEPT ![d] = r.next]
             /\ collections' = [collections EXCEPT ![d] = r.gcs]
             /\ cp' = [cp EXCEPT ![t].status = r.status, ![t].ret = r.val,
                                 ![t].lost = r.lost]
             /\ exited' = (r.status \in {"crash", "abort"})
             /\ pc' = [pc EXCEPT ![t] =
                          CASE r.status = "ok" -> "c_ret"
                            [] r.status = "crash" -> "crashed"
                            [] r.status = "abort" -> "assert_failed"
                            [] OTHER -> "no_return"]
    /\ UNCHANGED << processes, heap_end, lockVars, msgVars, lifeVars,
                    sendVars, recvVars, allocVars, callVars >>

\* A return that leaves vm_key at the target machine.
CopyToReturn_NoRestore(t) ==
    /\ ~exited /\ pc[t] = "c_ret"
    /\ cp' = [cp EXCEPT ![t].op = "returned"]
    /\ alloc_lock' = IF cp[t].locked
                       THEN [alloc_lock EXCEPT ![cp[t].dest] = UnlockRec(@)]
                       ELSE alloc_lock
    /\ pc' = [pc EXCEPT ![t] = "c_done"]
    /\ UNCHANGED << exited, processes, heapVars, inbox_lock, inbox_block,
                    msgVars, lifeVars, sendVars, recvVars, allocVars, cells,
                    callVars >>

\* pthread_setspecific(vm_key, current); return ret;
\* and, in idris_sendMessage, pthread_mutex_unlock(&dest->alloc_lock);
CopyToReturn(t) ==
    /\ ~exited /\ pc[t] = "c_ret"
    /\ cp' = [cp EXCEPT ![t].op = "returned", ![t].key = cp[t].saved]
    /\ alloc_lock' = IF cp[t].locked
                       THEN [alloc_lock EXCEPT ![cp[t].dest] = UnlockRec(@)]
                       ELSE alloc_lock
    /\ pc' = [pc EXCEPT ![t] = "c_done"]
    /\ UNCHANGED << exited, processes, heapVars, inbox_lock, inbox_block,
                    msgVars, lifeVars, sendVars, recvVars, allocVars, cells,
                    callVars >>

\* callvm->processes++; pthread_create(&t, &attr, runThread, td);
SpawnThread ==
    /\ ~exited /\ pc[Spawner] = "c_done"
    /\ processes' = [processes EXCEPT ![Spawner] = @ + 1]
    /\ pc' = [pc EXCEPT ![Spawner] = "spawned"]
    /\ UNCHANGED << exited, heapVars, lockVars, msgVars, lifeVars, sendVars,
                    recvVars, allocVars, copyVars, callVars >>

\* heap_size of the machines of this specification, a multiple of 8
CopyHeapSize == 8 * CopyHeapWords

\* A holds the cells of SrcHeap; B is a machine A has spawned, whose heap is
\* filled up to any chunk boundary; C has been through init_vm only.
InitCopy ==
    /\ InitVMs
    /\ processes = [m \in VMs |-> IF m = Child THEN 0 ELSE 1]
    /\ heap_end = [m \in VMs |-> CopyHeapSize]
    /\ \E n \in {k \in 0..(CopyHeapSize - 8) : k % 8 = 0} :
          heap_next = [m \in VMs |-> IF m = Spawner THEN n ELSE 0]
    /\ al = [t \in VMs |-> NoCall]
    /\ win = [t \in VMs |-> NoWindow]
    /\ cells = [m \in VMs |-> IF m = Sender THEN SrcHeap ELSE << >>]
    /\ cp = [t \in VMs |-> NoCall]

NextCopy ==
    \/ \E x \in SrcValues : SendMsgCopy(x)
    \/ SpawnCopy
    \/ \E t \in {Sender, Spawner} :
          \/ DoCopyTo(t)
          \/ CopyToReturn(t)
    \/ SpawnThread

SpecCopy == InitCopy /\ [][NextCopy]_vars

-----------------------------------------------------------------------------
(* String slices: idris_strTail(vm, str) on machine A *)

StrVM == "A"

\* The strings the tails start from: "a", "ab", "abc", ..
StrInputs == {[i \in 1..k |-> 96 + i] : k \in 1..MaxStrLen}

\* The bytes of seq behind its first n.
Drop(seq, n) == SubSeq(seq, n + 1, Len(seq))

\* GETSTROFF(stroff): root->str->info.str + root->offset, one hop. When the
\* cell at str is not a string cell, its info.str is not a string pointer and
\* the bytes read are no string of the program.
GETSTROFF(hp, c) ==
    LET r == Deref(hp, c.args[1])
    IN  IF r.ty = "STRING" THEN Drop(r.pay, c.pay[1]) ELSE << >>

\* GETSTR(x): info.str of a string cell, GETSTROFF(x) of a slice.
GETSTR(hp, v) ==
    LET c == Deref(hp, v)
    IN  IF c.ty = "STRING" THEN c.pay ELSE GETSTROFF(hp, c)

\* idris_utf8_charlen(s): the number of bytes of the first character, by the
\* lead byte.
idris_utf8_charlen(chars) ==
    IF chars = << >> THEN 1
    ELSE IF Head(chars) < 128 THEN 1
    ELSE IF Head(chars) < 224 THEN 2
    ELSE IF Head(chars) < 240 THEN 3
    ELSE 4

\* A search for the root that takes str as it is.
FindRoot_NoWalk(hp, root, offset) == [root |-> root, offset |-> offset]

\* while (root != NULL && !ISSTR(root)) {
\*     offset += root->info.str_offset->offset;
\*     root = root->info.str_offset->str; }
RECURSIVE FindRoot(_, _, _)
FindRoot(hp, root, offset) ==
    IF root.k # "ref" THEN [root |-> root, offset |-> offset]
    ELSE IF Deref(hp, root).ty = "STRING" THEN [root |-> root, offset |-> offset]
    ELSE FindRoot(hp, Deref(hp, root).args[1],
                  offset + Deref(hp, root).pay[1])

\* int space(VM* vm, size_t size):
\*     vm->heap.next + size + sizeof(size_t) < vm->heap.end
space(vm, size) == heap_next[vm] + size + HeaderSize < heap_end[vm]

\* The VALs of the string cells and slices in the machine's heap that have a
\* first character (idris_strTail is called on non-empty strings).
StrArgs ==
    {v \in {Ref(StrVM, collections[StrVM], i) : i \in DOMAIN cells[StrVM]} :
        /\ Deref(cells, v).ty \in {"STRING", "STROFFSET"}
        /\ GETSTR(cells, v) # << >>}

\* idris_strTail(vm, str):
\*   if (space(vm, sizeof(Closure) + sizeof(StrOffset)))
\*       allocate the slice, find the root, store root and offset;
\*   else MKSTR(vm, nstr + idris_utf8_charlen(nstr));
\* Every cell of the heap is held by the program, so the collection that
\* allocate runs when the copy does not fit frees nothing, and allocate goes
\* on collecting.
idris_strTail(str) ==
    /\ ~exited /\ pc[StrVM] = "idle"
    /\ LET nstr  == GETSTR(cells, str)
           clen  == idris_utf8_charlen(nstr)
           slice == ClosureSize + StrOffsetSize
           r     == FindRoot(cells, str, 0)
           copy  == ClosureSize + Len(Drop(nstr, clen)) + 1
           here  == Ref(StrVM, collections[StrVM], Len(cells[StrVM]) + 1)
       IN  IF space(StrVM, slice)
             THEN /\ heap_next' = [heap_next EXCEPT
                                      ![StrVM] = @ + ChunkSize(RoundSize(slice))]
                  /\ cells' = [cells EXCEPT ![StrVM] = Append(@,
                                  Cell("STROFFSET", 0, <<r.root>>,
                                       <<r.offset + clen>>, FALSE))]
                  /\ cp' = [cp EXCEPT ![StrVM] =
                               [op |-> "strTail", x |-> str, ret |-> here]]
                  /\ UNCHANGED << pc, collections >>
           ELSE IF Fits(heap_next[StrVM], ChunkSize(RoundSize(copy)),
                        heap_end[StrVM])
             THEN /\ heap_next' = [heap_next EXCEPT
                                      ![StrVM] = @ + ChunkSize(RoundSize(copy))]
                  /\ cells' = [cells EXCEPT ![StrVM] = Append(@,
                                  Leaf("STRING", Drop(nstr, clen)))]
                  /\ cp' = [cp EXCEPT ![StrVM] =
                               [op |-> "strTail", x |-> str, ret |-> here]]
                  /\ UNCHANGED << pc, collections >>
           ELSE /\ pc' = [pc EXCEPT ![StrVM] = "no_return"]
                /\ cp' = [cp EXCEPT ![StrVM] =
                             [op |-> "strTail", x |-> str, ret |-> Null]]
                /\ UNCHANGED << heap_next, cells, collections >>
    /\ UNCHANGED << exited, processes, heap_end, lockVars, msgVars, lifeVars,
                    sendVars, recvVars, allocVars, callVars >>

StrHeapSize == 8 * StrHeapWords

\* A's heap holds other data up to some chunk boundary and, behind it, the
\* string cell MKSTR made (sizeof(Closure) + strlen + 1 bytes).
InitStr ==
    /\ InitVMs
    /\ processes = [m \in VMs |-> 0]
    /\ heap_end = [m \in VMs |-> StrHeapSize]
    /\ al = [t \in VMs |-> NoCall]
    /\ win = [t \in VMs |-> NoWindow]
    /\ cp = [t \in VMs |-> NoCall]
    /\ \E chars \in StrInputs :
         \E n \in {k \in 0..(StrHeapSize - 40) : k % 8 = 0} :
            /\ cells = [m \in VMs |-> IF m = StrVM
                           THEN <<Leaf("STRING", chars)>> ELSE << >>]
            /\ heap_next = [m \in VMs |-> IF m = StrVM
                   THEN n + ChunkSize(RoundSize(ClosureSize + Len(chars) + 1))
                   ELSE 0]

NextStr == \E str \in StrArgs : idris_strTail(str)

SpecStr == InitStr /\ [][NextStr]_vars

-----------------------------------------------------------------------------
(* idris_strTail on B's heap while peer A copies messages into it: the      *)
(* space test of line 615 and the allocate call behind it, in steps.        *)

\* The lengths of the rest of the string that the else branch copies.
RestLens == 0..(MaxStrLen - 1)

\* idris_strTail(vm, str), called by the owner's thread:
\*   if (space(vm, sizeof(Closure) + sizeof(StrOffset)))
\*       Closure* cl = allocate(sizeof(Closure) + sizeof(StrOffset), 0);
\*   else MKSTR(vm, nstr + idris_utf8_charlen(nstr)), which calls
\*       allocate(sizeof(Closure) + strlen + 1, 0).
\* cp[Owner] keeps the branch taken until the call returns.
TailSpace(rest) ==
    /\ ~exited /\ pc[Owner] = "idle" /\ ~win[Owner].open
    /\ cp[Owner] = NoCall
    /\ LET slice == ClosureSize + StrOffsetSize
       IN  IF space(Owner, slice)
             THEN /\ cp' = [cp EXCEPT ![Owner] = [op |-> "strTail"]]
                  /\ al' = [al EXCEPT ![Owner] = NewCall(slice, FALSE, "st_root")]
             ELSE /\ cp' = [cp EXCEPT ![Owner] = [op |-> "strTailCopy"]]
                  /\ al' = [al EXCEPT ![Owner] =
                               NewCall(ClosureSize + rest + 1, FALSE, "st_root")]
    /\ pc' = [pc EXCEPT ![Owner] = "a_enter"]
    /\ UNCHANGED << exited, processes, heapVars, lockVars, msgVars, lifeVars,
                    sendVars, recvVars, win, cells, callVars >>

\* SETTY(cl, CT_STROFFSET); the walk to the root; the stores of root and
\* offset; return cl;      (or the strcpy of MKSTR and its return)
TailReturn ==
    /\ ~exited /\ pc[Owner] = "st_root"
    /\ cp' = [cp EXCEPT ![Owner] = NoCall]
    /\ pc' = [pc EXCEPT ![Owner] = "idle"]
    /\ UNCHANGED << exited, processes, heapVars, lockVars, msgVars, lifeVars,
                    sendVars, recvVars, allocVars, cells, callVars >>

\* B is a spawned machine (processes = 1) whose heap is filled up to some
\* chunk boundary.
InitTail ==
    /\ InitVMs
    /\ processes = [m \in VMs |-> 1]
    /\ al = [t \in VMs |-> NoCall]
    /\ win = [t \in VMs |-> NoWindow]
    /\ heap_end = [m \in VMs |-> StrHeapSize]
    /\ \E n \in {k \in 0..(StrHeapSize - 8) : k % 8 = 0} :
          heap_next = [m \in VMs |-> IF m = HeapVM THEN n ELSE 0]
    /\ cells = [m \in VMs |-> << >>]
    /\ cp = [t \in VMs |-> NoCall]

NextTail ==
    \/ \E rest \in RestLens : TailSpace(rest)
    \/ TailReturn
    \/ PeerLock
    \/ \E size \in CopySizes : PeerCopyCell(size)
    \/ PeerUnlock
    \/ \E t \in {Owner, Peer} :
          \/ AllocEnter(t)
          \/ AllocCheck(t)
          \/ AllocBump(t)
          \/ AllocReturn(t)
          \/ AllocGC(t)

SpecTail == InitTail /\ [][NextTail]_vars

-----------------------------------------------------------------------------
(* Claims about idris_strTail and the collector, checked under SpecTail *)

\* C23 (as claimed): idris_strTail lets no collection move its argument while
\* it builds a slice. Whenever its space check has succeeded, the allocate
\* call for the slice cell runs no collection, in every interleaving with
\* a peer that copies messages into the same heap.
C23_SliceAllocNoCollection ==
    (cp[Owner].op = "strTail" /\ InCall(Owner)) =>
        /\ al[Owner].gcs = 0
        /\ pc[Owner] # "a_gc"

-----------------------------------------------------------------------------
(* Claims about string slices, checked under SpecStr *)

IsSlice(v) == v.k = "ref" /\ Deref(cells, v).ty = "STROFFSET"

\* The string cell a value stands on: itself, or the str field of a slice.
StringOf(v) == IF IsSlice(v) THEN Deref(cells, v).args[1] ELSE v

\* C14: slice root flatness. The str field of every slice cell in the heap
\* points to a string cell, never to a slice; and the slice idris_strTail
\* returns for a string or for a slice stands on the same string cell as its
\* argument, with the bytes of the argument behind its first character
\* (tail(tail(s)) is a slice of s with offset 2).
C14_SliceRootFlat ==
    /\ \A i \in DOMAIN cells[StrVM] :
          cells[StrVM][i].ty = "STROFFSET" =>
              /\ cells[StrVM][i].args[1].k = "ref"
              /\ Deref(cells, cells[StrVM][i].args[1]).ty = "STRING"
    /\ (cp[StrVM].op = "strTail" /\ IsSlice(cp[StrVM].ret)) =>
          /\ StringOf(cp[StrVM].ret) = StringOf(cp[StrVM].x)
          /\ GETSTR(cells, cp[StrVM].ret) = Tail(GETSTR(cells, cp[StrVM].x))

\* Witness of C14: idris_strTail of a slice has returned a slice with offset 2
\* over the string cell the heap started with.
C14_Witness ==
    /\ cp[StrVM].op = "strTail"
    /\ IsSlice(cp[StrVM].x) /\ IsSlice(cp[StrVM].ret)
    /\ Deref(cells, cp[StrVM].ret).args[1] = Ref(StrVM, 0, 1)
    /\ Deref(cells, cp[StrVM].ret).pay = <<2>>

-----------------------------------------------------------------------------
(* Claims about the cross-machine copy, checked under SpecCopy *)

\* One (tag, payload) pair of a traversal.
Visit(ty, tag, n, pay, isnull) ==
    [ty |-> ty, tag |-> tag, n |-> n, pay |-> pay, null |-> isnull]

\* The depth-first traversal of a value: the pair of the value, then the
\* traversals of the VALs its cell holds, in order. An uninitialised pointer
\* and a pointer into a heap collected since are pairs of their own.
RECURSIVE Traversal(_)
RECURSIVE TraverseArgs(_, _)

TraverseArgs(args, i) ==
    IF i > Len(args) THEN << >>
    ELSE Traversal(args[i]) \o TraverseArgs(args, i + 1)

Traversal(v) ==
    IF v.k = "null" THEN <<Visit("NULL", 0, 0, << >>, FALSE)>>
    ELSE IF v.k = "int" THEN <<Visit("INT", 0, 0, <<v.v>>, FALSE)>>
    ELSE IF v.k = "wild" THEN <<Visit("WILD", 0, 0, << >>, FALSE)>>
    ELSE IF ~ValidRef(v) THEN <<Visit("DANGLING", 0, 0, << >>, FALSE)>>
    ELSE LET c == Deref(cells, v)
         IN  <<Visit(c.ty, c.tag, Len(c.args), c.pay, c.null)>>
                 \o TraverseArgs(c.args, 1)

\* The copyTo of thread t has run doCopyTo to its end.
CopyEnded(t) == cp[t].op # "none" /\ cp[t].status # "running"

\* x is a string-slice cell or has one below it.
HasSlice(x) ==
    \E i \in DOMAIN Traversal(x) : Traversal(x)[i].ty = "STROFFSET"

\* C8 (as claimed): copyTo of a string-slice cell, or of a constructor with a
\* string-slice child, completes normally and returns a value of the same
\* shape: a slice with the same offset over a copy of the root string.
C8_SliceCopySucceeds ==
    \A t \in VMs :
        IF CopyEnded(t) /\ cp[t].x.k = "ref"
          THEN HasSlice(cp[t].x) =>
                   /\ cp[t].status = "ok"
                   /\ cp[t].ret.k = "ref"
                   /\ Traversal(cp[t].ret) = Traversal(cp[t].x)
          ELSE TRUE

\* C9 (as claimed): for every value x over the tags of the copy table (no
\* string-slice below it), copyTo returns, and the depth-first traversal of
\* what it returns is the sequence of (tag, payload) pairs of x.
C9_CopyDeepEquality ==
    \A t \in VMs :
        IF CopyEnded(t)
          THEN ~HasSlice(cp[t].x) =>
                   /\ cp[t].status = "ok"
                   /\ Traversal(cp[t].ret) = Traversal(cp[t].x)
          ELSE TRUE

\* A zero-arity constructor cell with a tag of the nullary table.
IsNullaryCon(c) ==
    c.ty = "CON" /\ Len(c.args) = 0 /\ c.tag \in 0..(NullaryTags - 1)

\* v does not point to a zero-arity small-tag constructor, or it is the
\* interned cell of that tag.
SharedIfNullary(v) ==
    IF v.k # "ref" THEN TRUE
    ELSE IF ~ValidRef(v) THEN TRUE
    ELSE IsNullaryCon(Deref(cells, v)) => v = nullary_cons(Deref(cells, v).tag)

\* v points into no heap but that of machine m.
LocalTo(m, v) == IF v.k = "ref" THEN v.heap \in {m, "global"} ELSE TRUE

\* The VALs held by the cells of m's heap.
ArgVals(m) ==
    UNION {{cells[m][i].args[j] : j \in DOMAIN cells[m][i].args} :
               i \in DOMAIN cells[m]}

\* C10: nullary sharing. After the send's copy and the spawn's copy, every
\* reference to a zero-arity constructor with tag in [0, 256) that a cell of any
\* machine holds, or that a copy has returned, is nullary_cons[tag]; no cell
\* holds a reference into another machine's heap; and copyTo of such a
\* constructor returns the very same reference and allocates nothing (next and
\* the collection count of the target are what they were).
C10_NullarySharing ==
    /\ \A m \in VMs : \A v \in ArgVals(m) : SharedIfNullary(v) /\ LocalTo(m, v)
    /\ \A t \in VMs :
          IF CopyEnded(t)
            THEN /\ cp[t].status = "ok" =>
                       SharedIfNullary(cp[t].ret) /\ LocalTo(cp[t].dest, cp[t].ret)
                 /\ cp[t].x \in {nullary_cons(i) : i \in {0, NullaryTags - 1}} =>
                       /\ cp[t].status = "ok"
                       /\ cp[t].ret = cp[t].x
                       /\ heap_next[cp[t].dest] = cp[t].next0
                       /\ collections[cp[t].dest] = cp[t].gcs0
                       /\ cells[cp[t].dest] = << >>
            ELSE TRUE

\* Witness of C10: a constructor holding nullary_cons[0] was sent from A to B
\* and passed on from B to the spawned C; the cell in C's heap holds
\* nullary_cons[0].
C10_Witness ==
    /\ pc[Spawner] = "spawned"
    /\ cp[Sender].x = Ref("A", 0, 14)
    /\ cp[Spawner].status = "ok"
    /\ cp[Spawner].ret.k = "ref" /\ cp[Spawner].ret.heap = Child
    /\ ValidRef(cp[Spawner].ret)
    /\ Deref(cells, cp[Spawner].ret).args[1] = nullary_cons(0)

\* The thread t is inside copyTo, between the two pthread_setspecific calls.
InCopyTo(t) == cp[t].op = "copyTo"

\* C25: copyTo leaves the caller's machine binding unchanged. For a thread
\* bound to machine t and a target dest: while copyTo(dest, x) runs, the
\* thread's vm_key is dest; the step that runs doCopyTo allocates in dest's
\* heap only and leaves the cursor and the cells of t's own heap, and of every
\* other machine, as they were; and when copyTo has returned vm_key is t
\* again.
C25_CopyToKeepsBinding ==
    /\ [](\A t \in VMs :
            /\ InCopyTo(t) => cp[t].key = cp[t].dest /\ cp[t].dest # t
            /\ cp[t].op = "returned" => cp[t].key = t)
    /\ [][ \A t \in VMs :
             (pc[t] = "c_do" /\ pc'[t] # "c_do") =>
                 \A m \in VMs \ {cp[t].dest} :
                     /\ heap_next'[m] = heap_next[m]
                     /\ cells'[m] = cells[m]
                     /\ collections'[m] = collections[m] ]_vars

\* Witness of C25: B, whose own heap holds cells, has returned from a copyTo
\* that allocated cells in C's heap.
C25_Witness ==
    /\ cp[Spawner].op = "returned" /\ cp[Spawner].status = "ok"
    /\ cp[Spawner].key = Spawner
    /\ heap_next[Spawner] > 0 /\ cells[Spawner] # << >>
    /\ heap_next[Child] > 0 /\ cells[Child] # << >>

====
